---- MODULE Spec2Model ----
(***************************************************************************)
(* A model of SaberVM's bytecode verifier (src/src/verify.rs): go, the     *)
(* signature pass type_pass, the body pass definition_pass, and the pure   *)
(* functions substitute_t, substitute_r, type_eq and setup_verifier.       *)
(* The program being verified is the input: its forward declarations, its  *)
(* statements and their opcodes are chosen one at a time, as the loops of  *)
(* go, type_pass and definition_pass read them.                            *)
(***************************************************************************)
EXTENDS Integers, Sequences, FiniteSets, TLC

(***************************************************************************)
(* Bounds of the exploration.                                              *)
(***************************************************************************)
MaxDecs == 2       \* forward declarations in types_instrs
MaxStmts == 2      \* statements in unverified_stmts
MaxSigOps == 5     \* opcodes of one forward declaration
MaxBodyOps == 3    \* body opcodes in one run of Spec
MaxMemOps == 7     \* body opcodes in one run of SpecMem
MaxCT == 4         \* depth of the compile-time stack
MaxStack == 3      \* depth of the run-time stack of types
MaxQS == 2         \* depth of the quantification stack

(***************************************************************************)
(* The operands the opcodes are read with.                                 *)
(***************************************************************************)
Labels == {0, 1}       \* Label: of a declaration, a statement, GlobalFunc
Params == {0, 1}       \* the u8 of CTGet, Get, Init, Proj
Arities == {0, 1, 2}   \* the u8 of Tuple and Func
Sizes == {1, 2}        \* the operand of Size
LitVals == {7}

Last(s) == s[Len(s)]
Front(s) == SubSeq(s, 1, Len(s) - 1)
Reverse(s) == [j \in 1..Len(s) |-> s[Len(s) + 1 - j]]

RECURSIVE SeqOfSet(_)
SeqOfSet(S) ==
    IF S = {} THEN <<>>
    ELSE LET x == CHOOSE y \in S : TRUE IN <<x>> \o SeqOfSet(S \ {x})

RECURSIVE SumSeq(_)
SumSeq(s) == IF s = <<>> THEN 0 ELSE s[1] + SumSeq(Tail(s))


(***************************************************************************)
(* Values: identifiers, regions, types, compile-time stack values,         *)
(* quantification frames.                                                  *)
(***************************************************************************)
Id(label, n) == <<label, n>>
Region(unique, id) == [unique |-> unique, id |-> id]

TI32 == [k |-> "I32"]
THandle(r) == [k |-> "Handle", r |-> r]
TTuple(ts) == [k |-> "Tuple", ts |-> ts]
TPtr(t, r) == [k |-> "Ptr", t |-> t, r |-> r]
TVar(id, s) == [k |-> "Var", id |-> id, s |-> s]
TFunc(ts) == [k |-> "Func", ts |-> ts]
TExists(id, s, t) == [k |-> "Exists", id |-> id, s |-> s, t |-> t]
TForall(id, s, t) == [k |-> "Forall", id |-> id, s |-> s, t |-> t]
TForallRegion(r, t, captured_rgns) ==
    [k |-> "ForallRegion", r |-> r, t |-> t, captured_rgns |-> captured_rgns]

CTRegion(r) == [k |-> "Region", r |-> r]
CTType(t) == [k |-> "Type", t |-> t]
CTSize(s) == [k |-> "Size", s |-> s]

QExist(id, s) == [k |-> "Exist", id |-> id, s |-> s]
QForall(id, s) == [k |-> "Forall", id |-> id, s |-> s]
QRegion(r) == [k |-> "Region", r |-> r]

(***************************************************************************)
(* Type::size.  The impl is not in the source files at hand; modelled from *)
(* the specification's layout oracle: one word for I32, Handle, pointers   *)
(* and functions, the binder's size for a variable, the sum of the         *)
(* components for a tuple, the body's size under a quantifier.             *)
(***************************************************************************)
RECURSIVE size(_)
size(t) ==
    CASE t.k = "I32" -> 1
      [] t.k = "Handle" -> 1
      [] t.k = "Ptr" -> 1
      [] t.k = "Func" -> 1
      [] t.k = "Var" -> t.s
      [] t.k = "Tuple" -> SumSeq([j \in 1..Len(t.ts) |-> size(t.ts[j].t)])
      [] OTHER -> size(t.t)

(***************************************************************************)
(* substitute_r, substitute_t.  tsubs and rsubs are functions from         *)
(* identifiers (HashMap<Id, _>); <<>> is the empty map.  The loop over     *)
(* rsubs in the ForallRegion arm follows the map's iteration order, which  *)
(* differs from run to run when the map has several entries; every rsubs   *)
(* the verifier builds (Op1::App, handle_call, type_eq) has one entry, and *)
(* a map of one entry has one order.                                       *)
(***************************************************************************)
substitute_r(r, rsubs) ==
    IF r.id \in DOMAIN rsubs THEN rsubs[r.id] ELSE r

RECURSIVE substitute_t(_, _, _)
substitute_t(typ, tsubs, rsubs) ==
    CASE typ.k = "I32" -> TI32
      [] typ.k = "Handle" -> THandle(substitute_r(typ.r, rsubs))
      [] typ.k = "Tuple" ->
            TTuple([j \in 1..Len(typ.ts) |->
                      [init |-> typ.ts[j].init,
                       t |-> substitute_t(typ.ts[j].t, tsubs, rsubs)]])
      [] typ.k = "Ptr" ->
            TPtr(substitute_t(typ.t, tsubs, rsubs), substitute_r(typ.r, rsubs))
      [] typ.k = "Var" ->
            IF typ.id \in DOMAIN tsubs THEN tsubs[typ.id] ELSE TVar(typ.id, typ.s)
      [] typ.k = "Func" ->
            TFunc([j \in 1..Len(typ.ts) |-> substitute_t(typ.ts[j], tsubs, rsubs)])
      [] typ.k = "Exists" ->
            TExists(typ.id, typ.s, substitute_t(typ.t, tsubs, rsubs))
      [] typ.k = "Forall" ->
            TForall(typ.id, typ.s, substitute_t(typ.t, tsubs, rsubs))
      [] typ.k = "ForallRegion" ->
            LET keys == SeqOfSet(DOMAIN rsubs)
                vals == [j \in 1..Len(keys) |-> rsubs[keys[j]]]
                IsUnique(r) == r.unique
            IN TForallRegion(typ.r, substitute_t(typ.t, tsubs, rsubs),
                             typ.captured_rgns \o SelectSeq(vals, IsUnique))

(***************************************************************************)
(* type_eq                                                                 *)
(***************************************************************************)
RECURSIVE type_eq(_, _)
type_eq(type1, type2) ==
    CASE type1.k = "I32" /\ type2.k = "I32" -> TRUE
      [] type1.k = "Handle" /\ type2.k = "Handle" -> type1.r = type2.r
      [] type1.k = "Tuple" /\ type2.k = "Tuple" ->
            /\ Len(type1.ts) = Len(type2.ts)
            /\ \A j \in 1..Len(type1.ts) :
                  /\ type1.ts[j].init = type2.ts[j].init
                  /\ type_eq(type1.ts[j].t, type2.ts[j].t)
      [] type1.k = "Ptr" /\ type2.k = "Ptr" ->
            type1.r = type2.r /\ type_eq(type1.t, type2.t)
      [] type1.k = "Var" /\ type2.k = "Var" ->
            type1.id = type2.id /\ type1.s = type2.s
      [] type1.k = "Func" /\ type2.k = "Func" ->
            LET m == IF Len(type1.ts) < Len(type2.ts)
                     THEN Len(type1.ts) ELSE Len(type2.ts)
            IN \A j \in 1..m : type_eq(type1.ts[j], type2.ts[j])
      [] type1.k = "Exists" /\ type2.k = "Exists" ->
            LET sub == (type2.id :> TVar(type1.id, type1.s))
                t2_subbed == substitute_t(type2.t, sub, <<>>)
            IN type1.s = type2.s /\ type_eq(type1.t, t2_subbed)
      [] type1.k = "Forall" /\ type2.k = "Forall" ->
            LET sub == (type2.id :> TVar(type1.id, type1.s))
                body2_subbed == substitute_t(type2.t, sub, <<>>)
            IN type1.s = type2.s /\ type_eq(type1.t, body2_subbed)
      [] type1.k = "ForallRegion" /\ type2.k = "ForallRegion" ->
            LET sub == (type2.r.id :> type1.r)
                body2_subbed == substitute_t(type2.t, <<>>, sub)
            IN type_eq(type1.t, body2_subbed)
      [] OTHER -> FALSE

(***************************************************************************)
(* setup_verifier: the compile-time stack (innermost binder first) and the *)
(* run-time stack a body starts with; it panics on a type that is not a    *)
(* quantifier-wrapped function type.                                       *)
(***************************************************************************)
RECURSIVE setup_verifier(_)
setup_verifier(t) ==
    CASE t.k = "Forall" ->
            LET inner == setup_verifier(t.t)
            IN IF inner.panic THEN inner
               ELSE [panic |-> FALSE,
                     ct_stack |-> Append(inner.ct_stack, CTType(TVar(t.id, t.s))),
                     param_types |-> inner.param_types]
      [] t.k = "ForallRegion" ->
            LET inner == setup_verifier(t.t)
            IN IF inner.panic THEN inner
               ELSE [panic |-> FALSE,
                     ct_stack |-> Append(inner.ct_stack, CTRegion(t.r)),
                     param_types |-> inner.param_types]
      [] t.k = "Func" ->
            [panic |-> FALSE, ct_stack |-> <<>>, param_types |-> Reverse(t.ts)]
      [] OTHER -> [panic |-> TRUE]

(***************************************************************************)
(* Results of the handlers: Ok(changes) names the pieces of state a        *)
(* successful handler changed, Err(e) is a returned Error, Panicked is a   *)
(* panic!().                                                               *)
(***************************************************************************)
Ok(changes) == [ok |-> TRUE] @@ changes
Err(e) == [ok |-> FALSE, panic |-> FALSE, err |-> e]
Panicked == [ok |-> FALSE, panic |-> TRUE]

KindError(pos, op, kind, ctval) ==
    [e |-> "KindError", pos |-> pos, op |-> op, kind |-> kind, ctval |-> ctval]
EmptyCTStack(pos, op) == [e |-> "TypeErrorEmptyCTStack", pos |-> pos, op |-> op]
EmptyStack(pos, op) == [e |-> "TypeErrorEmptyStack", pos |-> pos, op |-> op]

\* a faulty variant of handle_handle: the error names the kind Type
handle_handle_mislabelled(pos, op, cts) ==
    IF cts = <<>> THEN Err(EmptyCTStack(pos, op))
    ELSE IF Last(cts).k = "Region"
         THEN Ok([cts |-> Append(Front(cts), CTType(THandle(Last(cts).r)))])
         ELSE Err(KindError(pos, op, "Type", Last(cts)))

handle_handle(pos, op, cts) ==
    IF cts = <<>> THEN Err(EmptyCTStack(pos, op))
    ELSE IF Last(cts).k = "Region"
         THEN Ok([cts |-> Append(Front(cts), CTType(THandle(Last(cts).r)))])
         ELSE Err(KindError(pos, op, "Region", Last(cts)))

\* the loop of handle_tuple: n pops still to do, ts the components so far
RECURSIVE handle_tuple_loop(_, _, _, _, _)
handle_tuple_loop(n, pos, op, cts, ts) ==
    IF n = 0 THEN Ok([cts |-> Append(cts, CTType(TTuple(ts)))])
    ELSE IF cts = <<>> THEN Err(EmptyCTStack(pos, op))
    ELSE IF Last(cts).k = "Type"
         THEN handle_tuple_loop(n - 1, pos, op, Front(cts),
                                Append(ts, [init |-> TRUE, t |-> Last(cts).t]))
         ELSE Err(KindError(pos, op, "Type", Last(cts)))

handle_tuple(n, pos, op, cts) == handle_tuple_loop(n, pos, op, cts, <<>>)

handle_some(pos, op, cts, fresh, label, qs) ==
    IF cts = <<>> THEN Err(EmptyCTStack(pos, op))
    ELSE IF Last(cts).k = "Size"
         THEN LET s == Last(cts).s
                  id == Id(label, fresh)
              IN Ok([cts |-> Append(Front(cts), CTType(TVar(id, s))),
                     fid |-> fresh + 1,
                     qs |-> Append(qs, QExist(id, s))])
         ELSE Err(KindError(pos, op, "Size", Last(cts)))

handle_all(pos, op, cts, fresh, label, qs) ==
    IF cts = <<>> THEN Err(EmptyCTStack(pos, op))
    ELSE IF Last(cts).k = "Size"
         THEN LET s == Last(cts).s
                  id == Id(label, fresh)
              IN Ok([cts |-> Append(Front(cts), CTType(TVar(id, s))),
                     fid |-> fresh + 1,
                     qs |-> Append(qs, QForall(id, s))])
         ELSE Err(KindError(pos, op, "Size", Last(cts)))

handle_rgn(nru, label, fresh, cts, qs) ==
    LET r == Region(nru, Id(label, fresh))
    IN Ok([cts |-> Append(cts, CTRegion(r)),
           fid |-> fresh + 1,
           qs |-> Append(qs, QRegion(r))])

\* a faulty variant of handle_end_var: any type variable closes the frame
handle_end_var_any(pos, op, cts, q, wrap) ==
    IF cts = <<>> THEN Err(EmptyCTStack(pos, op))
    ELSE IF Last(cts).k # "Type" THEN Err(KindError(pos, op, "Type", Last(cts)))
    ELSE LET t == Last(cts).t
             rest == Front(cts)
         IN IF rest = <<>> THEN Err(EmptyCTStack(pos, op))
            ELSE IF Last(rest).k # "Type"
                 THEN Err(KindError(pos, op, "Type", Last(rest)))
            ELSE IF Last(rest).t.k # "Var"
                 THEN Err([e |-> "TypeErrorTypeVarExpected", pos |-> pos,
                           op |-> op, id |-> q.id, t |-> Last(rest).t])
            ELSE Ok([cts |-> Append(Front(rest),
                                    CTType(IF wrap = "Exists"
                                           THEN TExists(q.id, q.s, t)
                                           ELSE TForall(q.id, q.s, t)))])

\* the two pops of handle_end under an Exist or Forall frame; wrap names the
\* quantifier the frame builds
handle_end_var(pos, op, cts, q, wrap) ==
    IF cts = <<>> THEN Err(EmptyCTStack(pos, op))
    ELSE IF Last(cts).k # "Type" THEN Err(KindError(pos, op, "Type", Last(cts)))
    ELSE LET t == Last(cts).t
             rest == Front(cts)
         IN IF rest = <<>> THEN Err(EmptyCTStack(pos, op))
            ELSE IF Last(rest).k # "Type"
                 THEN Err(KindError(pos, op, "Type", Last(rest)))
            ELSE IF Last(rest).t.k # "Var"
                 THEN Err([e |-> "TypeErrorTypeVarExpected", pos |-> pos,
                           op |-> op, id |-> q.id, t |-> Last(rest).t])
            ELSE IF Last(rest).t.id # q.id
                 THEN Err([e |-> "TypeErrorSpecificTypeVarExpected", pos |-> pos,
                           op |-> op, id |-> q.id, id2 |-> Last(rest).t.id])
            ELSE Ok([cts |-> Append(Front(rest),
                                    CTType(IF wrap = "Exists"
                                           THEN TExists(q.id, q.s, t)
                                           ELSE TForall(q.id, q.s, t)))])

handle_end_rgn(pos, op, cts, q) ==
    IF cts = <<>> THEN Err(EmptyCTStack(pos, op))
    ELSE IF Last(cts).k # "Type" THEN Err(KindError(pos, op, "Type", Last(cts)))
    ELSE LET t == Last(cts).t
             rest == Front(cts)
         IN IF rest = <<>> THEN Err(EmptyCTStack(pos, op))
            ELSE IF Last(rest).k # "Region"
                 THEN Err(KindError(pos, op, "Region", Last(rest)))
            ELSE IF Last(rest).r.id # q.r.id
                 THEN Err([e |-> "RegionError", pos |-> pos, op |-> op,
                           r |-> q.r, r2 |-> Last(rest).r])
            ELSE Ok([cts |-> Append(Front(rest),
                                    CTType(TForallRegion(q.r, t, <<>>)))])

handle_end(pos, op, cts, qs) ==
    IF qs = <<>>
    THEN Err([e |-> "TypeErrorEmptyQuantificationStack", pos |-> pos, op |-> op])
    ELSE LET q == Last(qs)
             r == CASE q.k = "Exist" -> handle_end_var(pos, op, cts, q, "Exists")
                    [] q.k = "Forall" -> handle_end_var(pos, op, cts, q, "Forall")
                    [] q.k = "Region" -> handle_end_rgn(pos, op, cts, q)
         IN IF r.ok THEN Ok([cts |-> r.cts, qs |-> Front(qs)]) ELSE r

RECURSIVE handle_func_loop(_, _, _, _, _)
handle_func_loop(n, pos, op, cts, ts) ==
    IF n = 0 THEN Ok([cts |-> Append(cts, CTType(TFunc(ts)))])
    ELSE IF cts = <<>> THEN Err(EmptyCTStack(pos, op))
    ELSE IF Last(cts).k = "Type"
         THEN handle_func_loop(n - 1, pos, op, Front(cts), Append(ts, Last(cts).t))
         ELSE Err(KindError(pos, op, "Type", Last(cts)))

handle_func(n, pos, op, cts) == handle_func_loop(n, pos, op, cts, <<>>)

(***************************************************************************)
(* handle_ctget computes len() - 1 - i in usize.  When i >= len() the      *)
(* subtraction overflows: a build with overflow checks panics, a build     *)
(* without them wraps, get() finds nothing and the Err is returned.        *)
(* overflow_checks is the build's choice.                                  *)
(***************************************************************************)
handle_ctget(pos, i, cts, overflow_checks) ==
    IF i < Len(cts)
    THEN Ok([cts |-> Append(cts, cts[Len(cts) - i])])
    ELSE IF overflow_checks THEN Panicked
    ELSE Err([e |-> "TypeErrorCTGetOutOfRange", pos |-> pos, i |-> i,
              len |-> Len(cts)])

handle_ptr(pos, op, cts) ==
    IF cts = <<>> THEN Err(EmptyCTStack(pos, op))
    ELSE IF Last(cts).k # "Type" THEN Err(KindError(pos, op, "Type", Last(cts)))
    ELSE LET t == Last(cts).t
             rest == Front(cts)
         IN IF rest = <<>> THEN Err(EmptyCTStack(pos, op))
            ELSE IF Last(rest).k # "Region"
                 THEN Err(KindError(pos, op, "Region", Last(rest)))
            ELSE Ok([cts |-> Append(Front(rest), CTType(TPtr(t, Last(rest).r)))])

(***************************************************************************)
(* type_pass as a function of a forward declaration [label, ops]: one      *)
(* opcode (type_pass_op), the check after the loop (type_pass_result), the *)
(* loop (type_pass_loop).  s holds type_pass's locals: cts, qs, fid, nru,  *)
(* pos, label.  An opcode is a record [op |-> name] with its immediate     *)
(* operand, if any, as n, i or s.                                          *)
(***************************************************************************)
type_pass_op(op, s, overflow_checks) ==
    CASE op.op = "Unique" -> Ok([nru |-> TRUE])
      [] op.op = "Handle" -> handle_handle(s.pos, op, s.cts)
      [] op.op = "I32" -> Ok([cts |-> Append(s.cts, CTType(TI32))])
      [] op.op = "Tuple" -> handle_tuple(op.n, s.pos, op, s.cts)
      [] op.op = "Some" -> handle_some(s.pos, op, s.cts, s.fid, s.label, s.qs)
      [] op.op = "All" -> handle_all(s.pos, op, s.cts, s.fid, s.label, s.qs)
      [] op.op = "Rgn" -> handle_rgn(s.nru, s.label, s.fid, s.cts, s.qs)
      [] op.op = "End" -> handle_end(s.pos, op, s.cts, s.qs)
      [] op.op = "Func" -> handle_func(op.n, s.pos, op, s.cts)
      [] op.op = "CTGet" -> handle_ctget(s.pos, op.i, s.cts, overflow_checks)
      [] op.op = "Size" -> Ok([cts |-> Append(s.cts, CTSize(op.s))])
      [] op.op = "Ptr" -> handle_ptr(s.pos, op, s.cts)
      [] OTHER -> Panicked

\* after the loop: exactly one slot, a type; the counter returned is pos
type_pass_result(s) ==
    IF Len(s.cts) = 1 /\ s.cts[1].k = "Type"
    THEN Ok([label |-> s.label, t |-> s.cts[1].t, fresh_id |-> s.pos])
    ELSE Panicked

RECURSIVE type_pass_loop(_, _, _)
type_pass_loop(ops, s, overflow_checks) ==
    IF ops = <<>> THEN type_pass_result(s)
    ELSE LET r == type_pass_op(Head(ops), s, overflow_checks)
         IN IF r.ok
            THEN type_pass_loop(Tail(ops), [(r @@ s) EXCEPT !.pos = s.pos + 1],
                                overflow_checks)
            ELSE r

type_pass(stmt, fresh, overflow_checks) ==
    type_pass_loop(stmt.ops,
                   [cts |-> <<>>, qs |-> <<>>, fid |-> fresh, nru |-> FALSE,
                    pos |-> stmt.label, label |-> stmt.label],
                   overflow_checks)

NoType == [k |-> "None"]
Running == [k |-> "running"]
NoTypes == [l \in Labels |-> NoType]

\* the first loop of go: types.insert(l, t); fresh_id = new_fresh_id
RECURSIVE go_type_passes(_, _, _, _)
go_type_passes(types_instrs, tys, fresh, overflow_checks) ==
    IF types_instrs = <<>> THEN Ok([types |-> tys, fresh_id |-> fresh])
    ELSE LET r == type_pass(Head(types_instrs), fresh, overflow_checks)
         IN IF r.ok
            THEN go_type_passes(Tail(types_instrs),
                                [tys EXCEPT ![r.label] = r.t], r.fresh_id,
                                overflow_checks)
            ELSE r

(***************************************************************************)
(* The forward declarations the specifications draw types_instrs from.     *)
(***************************************************************************)
O(name) == [op |-> name]
ON(name, n) == [op |-> name, n |-> n]
OI(name, i) == [op |-> name, i |-> i]
OS(name, s) == [op |-> name, s |-> s]
Dec(l, ops) == [label |-> l, ops |-> ops]

Sig ==
    [Main |->
        <<ON("Func", 0)>>,
     Int |->
        <<O("I32"), ON("Func", 1)>>,
     Rgn |->
        <<O("Rgn"), ON("Func", 0), O("End")>>,
     RgnHandle |->
        <<O("Rgn"), OI("CTGet", 0), O("Handle"), ON("Func", 1), O("End")>>,
     UniqueHandle |->
        <<O("Unique"), O("Rgn"), OI("CTGet", 0), O("Handle"), ON("Func", 1), O("End")>>,
     UniquePtrHandle |->
        <<O("Unique"), O("Rgn"), OI("CTGet", 0), O("I32"), ON("Tuple", 1), O("Ptr"), OI("CTGet", 1), O("Handle"), ON("Func", 2), O("End")>>,
     TwoHandle |->
        <<O("Unique"), O("Rgn"), OI("CTGet", 0), O("Handle"), OI("CTGet", 1), O("Handle"), ON("Func", 2), O("End")>>,
     All |->
        <<OS("Size", 1), O("All"), OI("CTGet", 0), ON("Func", 1), O("End")>>,
     FreePtr |->
        <<O("Rgn"), O("I32"), ON("Tuple", 1), O("Ptr"), ON("Func", 1)>>,
     RgnPtr |->
        <<O("Rgn"), OI("CTGet", 0), O("I32"), ON("Tuple", 1), O("Ptr"), ON("Func", 1), O("End")>>,
     Tuple |->
        <<O("I32"), ON("Tuple", 1), ON("Func", 1)>>,
     TwoRgn |->
        <<O("Rgn"), O("Rgn"), ON("Func", 0), O("End"), O("End")>>,
     TwoArgs |->
        <<O("I32"), O("I32"), ON("Tuple", 1), ON("Func", 2)>>,
     I32 |->
        <<O("I32")>>,
     Kind |->
        <<O("I32"), O("Handle")>>,
     Body |->
        <<ON("Func", 0), O("Halt")>>,
     OtherHandle |->
        <<O("Rgn"), O("Rgn"), OI("CTGet", 1), O("Handle"), ON("Func", 1), O("End"), O("End")>>,
     TwoUnique |->
        <<O("Unique"), O("Rgn"), O("Rgn"), ON("Func", 0), O("End"), O("End")>>,
     SecondHandle |->
        <<O("Unique"), O("Rgn"), O("Rgn"), OI("CTGet", 0), O("Handle"), ON("Func", 1), O("End"), O("End")>>]

Programs ==
    {<<>>,
     <<Dec(0, Sig.Rgn), Dec(1, Sig.UniqueHandle)>>,
     <<Dec(0, Sig.Int), Dec(1, Sig.TwoArgs)>>,
     <<Dec(0, Sig.All), Dec(1, Sig.TwoRgn)>>,
     <<Dec(0, Sig.UniquePtrHandle), Dec(1, Sig.RgnPtr)>>,
     <<Dec(0, Sig.FreePtr), Dec(1, Sig.Tuple)>>,
     <<Dec(1, Sig.RgnHandle), Dec(0, Sig.Main)>>,
     <<Dec(0, Sig.Main), Dec(1, Sig.Kind)>>,
     <<Dec(0, Sig.Body)>>,
     <<Dec(0, Sig.I32)>>}

(***************************************************************************)
(* The state.  pc is the place in go: "go_types" (the loop over            *)
(* types_instrs), "type_pass" (the opcode loop of type_pass, when a        *)
(* specification reads a declaration opcode by opcode), "go_defs" (the     *)
(* head of the map over unverified_stmts), "definition_pass" (the opcode   *)
(* loop of definition_pass), "done" (go has returned or panicked; result   *)
(* is what it returned).  decls is the input types_instrs; the statements  *)
(* and their opcodes are read as they come.  fuel bounds the body opcodes  *)
(* read in one run; n_decs and n_stmts count declarations and statements.  *)
(* freed and acc are history variables: the identifiers of the regions     *)
(* the current body has freed, and the identifiers of the regions the last *)
(* accepted body opcode accessed (through a pointer, by freeing, or as a   *)
(* region argument).  cur_op is the opcode the loop of type_pass or of      *)
(* definition_pass read last (`op` in the source).                         *)
(* in_type1, in_type2 and in_tsubs are the arguments of one call of        *)
(* type_eq or substitute_t made on its own, out_value what it returned;    *)
(* they stay as they start while go runs.  input is the program go is     *)
(* given, when a specification fixes it before go starts, together with    *)
(* the build's overflow checks; first_result is what an earlier run of go  *)
(* on the same input returned.                                             *)
(***************************************************************************)
VARIABLES pc, result, decls, types, fresh_id, n_decs, n_stmts, fuel,
          verified_stmts,
          label, my_type, pos, fid, next_region_is_unique,
          compile_time_stack, quantification_stack,
          stack_type, verified_ops, rgn_vars, freed, acc, cur_op,
          in_type1, in_type2, in_tsubs, out_value,
          input, first_result

go_vars == <<decls, types, fresh_id, n_decs, n_stmts, verified_stmts>>
fn_vars == <<label, my_type, pos, fid, next_region_is_unique,
             compile_time_stack, quantification_stack,
             stack_type, verified_ops, rgn_vars, freed, acc>>
fun_vars == <<in_type1, in_type2, in_tsubs, out_value>>
run_vars == <<input, first_result>>
vars == <<pc, result, fuel, go_vars, fn_vars, cur_op, fun_vars, run_vars>>
NoOp == [op |-> "None"]
NoValue == [f |-> "None"]

\* no function is being processed: the locals of type_pass and definition_pass
NoFunction ==
    /\ label' = 0 /\ my_type' = NoType /\ pos' = 0 /\ fid' = 0
    /\ next_region_is_unique' = FALSE
    /\ compile_time_stack' = <<>> /\ quantification_stack' = <<>>
    /\ stack_type' = <<>> /\ verified_ops' = <<>> /\ rgn_vars' = <<>>
    /\ freed' = {} /\ acc' = {}

\* go has returned: its locals are gone
NoProgram ==
    /\ decls' = <<>> /\ types' = NoTypes /\ fresh_id' = 0
    /\ n_decs' = 0 /\ n_stmts' = 0 /\ verified_stmts' = <<>> /\ fuel' = 0

InitWith(ds, f) ==
    /\ pc = "go_types" /\ result = Running
    /\ decls = ds /\ fuel = f
    /\ types = NoTypes /\ fresh_id = 0
    /\ n_decs = 0 /\ n_stmts = 0 /\ verified_stmts = <<>>
    /\ label = 0 /\ my_type = NoType /\ pos = 0 /\ fid = 0
    /\ next_region_is_unique = FALSE
    /\ compile_time_stack = <<>> /\ quantification_stack = <<>>
    /\ stack_type = <<>> /\ verified_ops = <<>> /\ rgn_vars = <<>>
    /\ freed = {} /\ acc = {} /\ cur_op = NoOp
    /\ in_type1 = NoType /\ in_type2 = NoType /\ in_tsubs = <<>>
    /\ out_value = NoValue
    /\ input = NoValue /\ first_result = NoValue

Init == \E ds \in Programs : InitWith(ds, MaxBodyOps)

\* a faulty variant of Abort: the statements verified so far are returned
\* with the error
AbortKeeping(e) ==
    /\ pc' = "done"
    /\ result' = [k |-> "err", err |-> e, stmts |-> verified_stmts]
    /\ NoProgram /\ NoFunction /\ UNCHANGED <<fun_vars, run_vars>>

\* go returns Err(e): by `?` or `return Err(e)` from any depth
Abort(e) ==
    /\ pc' = "done" /\ result' = [k |-> "err", err |-> e]
    /\ NoProgram /\ NoFunction /\ UNCHANGED <<fun_vars, run_vars>>

\* a panic!() unwinds go
Panic ==
    /\ pc' = "done" /\ result' = [k |-> "panic"]
    /\ NoProgram /\ NoFunction /\ UNCHANGED <<fun_vars, run_vars>>

\* the pieces of state a handler may change; acc is per opcode
Cur ==
    [cts |-> compile_time_stack, qs |-> quantification_stack, fid |-> fid,
     nru |-> next_region_is_unique, st |-> stack_type, vops |-> verified_ops,
     rgn |-> rgn_vars, freed |-> freed, acc |-> {}, pos |-> pos,
     label |-> label]

\* the opcode succeeded: the loop goes on to the next one (pos += 1)
Commit(r) ==
    LET n == r @@ Cur
    IN /\ Len(n.cts) <= MaxCT /\ Len(n.qs) <= MaxQS /\ Len(n.st) <= MaxStack
       /\ compile_time_stack' = n.cts /\ quantification_stack' = n.qs
       /\ fid' = n.fid /\ next_region_is_unique' = n.nru
       /\ stack_type' = n.st /\ verified_ops' = n.vops /\ rgn_vars' = n.rgn
       /\ freed' = n.freed /\ acc' = n.acc
       /\ pos' = pos + 1
       /\ fuel' = IF pc = "definition_pass" THEN fuel - 1 ELSE fuel
       /\ UNCHANGED <<pc, result, go_vars, label, my_type, fun_vars, run_vars>>

Apply(r) == IF r.ok THEN Commit(r) ELSE IF r.panic THEN Panic ELSE Abort(r.err)

\* one opcode of a forward declaration / of a statement is read
SigStep(o, r) ==
    pc = "type_pass" /\ pos - label < MaxSigOps /\ cur_op' = o /\ Apply(r)
DefStep(o, r) ==
    pc = "definition_pass" /\ fuel > 0 /\ cur_op' = o /\ Apply(r)

(***************************************************************************)
(* go: the loop over types_instrs, all of decls in one step.               *)
(***************************************************************************)
GoTypes ==
    /\ pc = "go_types" /\ n_decs = 0 /\ decls # <<>> /\ cur_op' = NoOp
    /\ \E oc \in BOOLEAN :
          LET r == go_type_passes(decls, types, fresh_id, oc)
          IN IF r.ok
             THEN /\ types' = r.types /\ fresh_id' = r.fresh_id
                  /\ n_decs' = Len(decls)
                  /\ UNCHANGED <<pc, result, fuel, decls, n_stmts,
                                 verified_stmts, fn_vars, fun_vars, run_vars>>
             ELSE IF r.panic THEN Panic ELSE Abort(r.err)

(***************************************************************************)
(* go and type_pass, a declaration read opcode by opcode.                  *)
(***************************************************************************)
GoTypePass ==
    /\ pc = "go_types" /\ decls = <<>> /\ n_decs < MaxDecs
    /\ \E l \in Labels :
          /\ pc' = "type_pass" /\ label' = l /\ pos' = l /\ fid' = fresh_id
          /\ next_region_is_unique' = FALSE
          /\ compile_time_stack' = <<>> /\ quantification_stack' = <<>>
    /\ UNCHANGED <<result, fuel, go_vars, my_type, stack_type, verified_ops,
                   rgn_vars, freed, acc, cur_op, fun_vars, run_vars>>

T_Unique == \E oc \in BOOLEAN : SigStep(O("Unique"), type_pass_op(O("Unique"), Cur, oc))
T_Handle == \E oc \in BOOLEAN : SigStep(O("Handle"), type_pass_op(O("Handle"), Cur, oc))
T_I32 == \E oc \in BOOLEAN : SigStep(O("I32"), type_pass_op(O("I32"), Cur, oc))
T_Tuple == \E n \in Arities, oc \in BOOLEAN :
              SigStep(ON("Tuple", n), type_pass_op(ON("Tuple", n), Cur, oc))
T_Some == \E oc \in BOOLEAN : SigStep(O("Some"), type_pass_op(O("Some"), Cur, oc))
T_All == \E oc \in BOOLEAN : SigStep(O("All"), type_pass_op(O("All"), Cur, oc))
T_Rgn == \E oc \in BOOLEAN : SigStep(O("Rgn"), type_pass_op(O("Rgn"), Cur, oc))
T_End == \E oc \in BOOLEAN : SigStep(O("End"), type_pass_op(O("End"), Cur, oc))
T_Func == \E n \in Arities, oc \in BOOLEAN :
             SigStep(ON("Func", n), type_pass_op(ON("Func", n), Cur, oc))
T_CTGet == \E i \in Params, oc \in BOOLEAN :
              SigStep(OI("CTGet", i), type_pass_op(OI("CTGet", i), Cur, oc))
T_Size == \E s \in Sizes, oc \in BOOLEAN :
             SigStep(OS("Size", s), type_pass_op(OS("Size", s), Cur, oc))
T_Ptr == \E oc \in BOOLEAN : SigStep(O("Ptr"), type_pass_op(O("Ptr"), Cur, oc))
\* any other opcode in a forward declaration: `_ => panic!()`
T_Other == \E oc \in BOOLEAN : SigStep(O("Halt"), type_pass_op(O("Halt"), Cur, oc))

\* the opcodes are exhausted: Ok((label, t, pos)), recorded by go
TypePassReturn ==
    /\ pc = "type_pass" /\ cur_op' = NoOp
    /\ LET r == type_pass_result(Cur)
       IN IF r.ok
          THEN /\ types' = [types EXCEPT ![r.label] = r.t]
               /\ fresh_id' = r.fresh_id
               /\ n_decs' = n_decs + 1
               /\ pc' = "go_types"
               /\ NoFunction
               /\ UNCHANGED <<result, fuel, decls, n_stmts, verified_stmts,
                              fun_vars, run_vars>>
          ELSE Panic

(***************************************************************************)
(* definition_pass: the start of a statement, and the body opcodes.        *)
(***************************************************************************)
\* a faulty variant of RegionsOf: rgn_vars starts empty
NoRegions(cts) == <<>>

RegionsOf(cts) ==
    LET IsRegion(v) == v.k = "Region"
        rs == SelectSeq(cts, IsRegion)
    IN [j \in 1..Len(rs) |-> rs[j].r]

\* the loop over types_instrs is over
GoDefinitions ==
    /\ pc = "go_types" /\ (decls = <<>> \/ n_decs > 0) /\ pc' = "go_defs"
    /\ UNCHANGED <<result, fuel, go_vars, fn_vars, cur_op, fun_vars, run_vars>>

\* definition_pass up to its opcode loop, for the statement labelled l
definition_pass_start(l) ==
    IF types[l] = NoType THEN Panic
    ELSE LET sv == setup_verifier(types[l])
         IN IF sv.panic THEN Panic
            ELSE /\ Len(sv.ct_stack) <= MaxCT
                 /\ Len(sv.param_types) <= MaxStack
                 /\ pc' = "definition_pass"
                 /\ label' = l /\ my_type' = types[l]
                 /\ compile_time_stack' = Reverse(sv.ct_stack)
                 /\ stack_type' = sv.param_types
                 /\ quantification_stack' = <<>>
                 /\ verified_ops' = <<>>
                 /\ rgn_vars' = RegionsOf(Reverse(sv.ct_stack))
                 /\ pos' = l /\ fid' = fresh_id
                 /\ next_region_is_unique' = FALSE
                 /\ freed' = {} /\ acc' = {}
                 /\ UNCHANGED <<result, fuel, go_vars, fun_vars, run_vars>>

GoDefinitionPass ==
    /\ pc = "go_defs" /\ n_stmts < MaxStmts /\ cur_op' = NoOp
    /\ \E l \in Labels : definition_pass_start(l)

\* whether region r is in rgn_vars: rgn_vars.iter().any(|r2| r.id == r2.id)
InRgnVars(r, rgns) == \E j \in 1..Len(rgns) : rgns[j].id = r.id

\* a faulty variant of offset_of: component i is counted in
offset_past(component_types, i) ==
    SumSeq([j \in 1..(i + 1) |-> size(component_types[j].t)])

\* the offset of component i: the sizes of the components before it
offset_of(component_types, i) ==
    SumSeq([j \in 1..i |-> size(component_types[j].t)])
tuple_size(component_types) ==
    SumSeq([j \in 1..Len(component_types) |-> size(component_types[j].t)])

\* a faulty variant of op_get: the entry copied is counted from the bottom
op_get_upward(i) ==
    LET op == [op |-> "Get", i |-> i]
        stack_len == Len(stack_type)
    IN IF stack_len = 0 THEN Err(EmptyStack(pos, op))
       ELSE IF stack_len - 1 < i
            THEN Err([e |-> "TypeErrorGetOutOfRange", pos |-> pos, i |-> i,
                      len |-> stack_len])
       ELSE LET offset == SumSeq([j \in 1..i |-> size(stack_type[stack_len + 1 - j])])
                t == stack_type[i + 1]
            IN Ok([st |-> Append(stack_type, t),
                   vops |-> Append(verified_ops,
                              [op |-> "Get", offset |-> offset, size |-> size(t)])])

\* a faulty variant of op_get: the offset sums the entries from the bottom
op_get_bottom(i) ==
    LET op == [op |-> "Get", i |-> i]
        stack_len == Len(stack_type)
    IN IF stack_len = 0 THEN Err(EmptyStack(pos, op))
       ELSE IF stack_len - 1 < i
            THEN Err([e |-> "TypeErrorGetOutOfRange", pos |-> pos, i |-> i,
                      len |-> stack_len])
       ELSE LET offset == SumSeq([j \in 1..i |-> size(stack_type[j])])
                t == stack_type[stack_len - i]
            IN Ok([st |-> Append(stack_type, t),
                   vops |-> Append(verified_ops,
                              [op |-> "Get", offset |-> offset, size |-> size(t)])])

op_get(i) ==
    LET op == [op |-> "Get", i |-> i]
        stack_len == Len(stack_type)
    IN IF stack_len = 0 THEN Err(EmptyStack(pos, op))
       ELSE IF stack_len - 1 < i
            THEN Err([e |-> "TypeErrorGetOutOfRange", pos |-> pos, i |-> i,
                      len |-> stack_len])
       ELSE LET offset == SumSeq([j \in 1..i |-> size(stack_type[stack_len + 1 - j])])
                t == stack_type[stack_len - i]
            IN Ok([st |-> Append(stack_type, t),
                   vops |-> Append(verified_ops,
                              [op |-> "Get", offset |-> offset, size |-> size(t)])])

\* a faulty variant of init_f: the flag of component i is not looked at
init_f_unchecked(i, op, component_types, mb_val) ==
    IF i >= Len(component_types)
    THEN Err([e |-> "TypeErrorInitOutOfRange", pos |-> pos, i |-> i,
              len |-> Len(component_types)])
    ELSE IF type_eq(component_types[i + 1].t, mb_val)
         THEN Ok([actual |-> mb_val])
         ELSE Err([e |-> "TypeErrorInitTypeMismatch", pos |-> pos,
                   formal |-> component_types[i + 1].t, actual |-> mb_val])

\* the closure f of Op1::Init: the checks on component i; on Ok the caller's g
\* builds the result from actual
init_f(i, op, component_types, mb_val) ==
    IF i >= Len(component_types)
    THEN Err([e |-> "TypeErrorInitOutOfRange", pos |-> pos, i |-> i,
              len |-> Len(component_types)])
    ELSE IF component_types[i + 1].init
         THEN Err([e |-> "TypeErrorDoubleInit", pos |-> pos, op |-> op, i |-> i])
    ELSE LET formal == component_types[i + 1].t
             actual == mb_val
         IN IF type_eq(formal, actual)
            THEN Ok([actual |-> actual])
            ELSE Err([e |-> "TypeErrorInitTypeMismatch", pos |-> pos,
                      formal |-> formal, actual |-> actual])

\* a faulty variant of init_set: the type is stored, the flag is not raised
init_set_unflagged(component_types, i, actual) ==
    [component_types EXCEPT ![i + 1] = [init |-> @.init, t |-> actual]]

\* component i becomes (true, actual)
init_set(component_types, i, actual) ==
    [component_types EXCEPT ![i + 1] = [init |-> TRUE, t |-> actual]]

op_init(i) ==
    LET op == [op |-> "Init", i |-> i]
        len == Len(stack_type)
    IN IF len < 2 THEN Err(EmptyStack(pos, op))
       ELSE
       LET mb_val == stack_type[len]
           mb_tpl == stack_type[len - 1]
           rest == SubSeq(stack_type, 1, len - 2)
           GTuple(actual, cs) ==
               Ok([st |-> Append(rest, TTuple(init_set(cs, i, actual))),
                   vops |-> Append(verified_ops,
                              [op |-> "Init", offset |-> offset_of(cs, i),
                               size |-> size(actual), total |-> tuple_size(cs)])])
           GPtr(actual, cs) ==
               Ok([st |-> Append(rest, TPtr(TTuple(init_set(cs, i, actual)), mb_tpl.r)),
                   vops |-> Append(verified_ops,
                              [op |-> "InitIP", offset |-> offset_of(cs, i),
                               size |-> size(actual)]),
                   acc |-> {mb_tpl.r.id}])
       IN CASE mb_tpl.k = "Tuple" ->
                 LET c == init_f(i, op, mb_tpl.ts, mb_val)
                 IN IF c.ok THEN GTuple(c.actual, mb_tpl.ts) ELSE c
            [] mb_tpl.k = "Ptr" ->
                 IF mb_tpl.t.k = "Tuple"
                 THEN IF ~InRgnVars(mb_tpl.r, rgn_vars)
                      THEN Err([e |-> "RegionAccessError", pos |-> pos, op |-> op,
                                r |-> mb_tpl.r])
                      ELSE LET c == init_f(i, op, mb_tpl.t.ts, mb_val)
                           IN IF c.ok THEN GPtr(c.actual, mb_tpl.t.ts) ELSE c
                 ELSE Err([e |-> "TypeErrorTupleExpected", pos |-> pos, op |-> op,
                           t |-> mb_tpl.t])
            [] OTHER -> Err([e |-> "TypeErrorTupleExpected", pos |-> pos, op |-> op,
                             t |-> mb_tpl])

\* a faulty variant of uninit: the flags of the type are kept
keep_flags(component_types) == component_types

\* every component flagged uninitialized
uninit(component_types) ==
    [j \in 1..Len(component_types) |-> [init |-> FALSE, t |-> component_types[j].t]]

\* a faulty variant of op_malloc: the handle stays on the run-time stack
op_malloc_kept ==
    LET op == [op |-> "Malloc"]
        cts == compile_time_stack
    IN IF cts = <<>> THEN Err(EmptyCTStack(pos, op))
       ELSE LET mb_type == Last(cts)
            IN
       IF mb_type.k = "Type" /\ mb_type.t.k = "Ptr"
       THEN LET t == mb_type.t.t
                r == mb_type.t.r
            IN IF stack_type = <<>> THEN Err(EmptyStack(pos, op))
               ELSE IF Last(stack_type).k # "Handle"
                    THEN Err([e |-> "TypeErrorRegionHandleExpected", pos |-> pos,
                              op |-> op, t |-> Last(stack_type)])
               ELSE IF r.id # Last(stack_type).r.id
                    THEN Err([e |-> "RegionError", pos |-> pos, op |-> op, r |-> r,
                              r2 |-> Last(stack_type).r])
               ELSE IF ~InRgnVars(r, rgn_vars)
                    THEN Err([e |-> "RegionAccessError", pos |-> pos, op |-> op,
                              r |-> r])
               ELSE IF t.k # "Tuple"
                    THEN Err([e |-> "TypeErrorMallocNonTuple", pos |-> pos,
                              op |-> op, t |-> t])
               ELSE Ok([cts |-> Front(cts),
                        st |-> Append(stack_type, TPtr(TTuple(uninit(t.ts)), r)),
                        vops |-> Append(verified_ops,
                                   [op |-> "Malloc", size |-> size(t)]),
                        acc |-> {r.id}])
       ELSE IF mb_type.k = "Type" /\ mb_type.t.k = "Tuple"
       THEN LET t == TTuple(uninit(mb_type.t.ts))
            IN Ok([cts |-> Front(cts),
                   st |-> Append(stack_type, t),
                   vops |-> Append(verified_ops, [op |-> "Alloca", size |-> size(t)])])
       ELSE Err(KindError(pos, op, "Type", mb_type))

op_malloc ==
    LET op == [op |-> "Malloc"]
        cts == compile_time_stack
    IN IF cts = <<>> THEN Err(EmptyCTStack(pos, op))
       ELSE LET mb_type == Last(cts)
            IN
       IF mb_type.k = "Type" /\ mb_type.t.k = "Ptr"
       THEN LET t == mb_type.t.t
                r == mb_type.t.r
            IN IF stack_type = <<>> THEN Err(EmptyStack(pos, op))
               ELSE IF Last(stack_type).k # "Handle"
                    THEN Err([e |-> "TypeErrorRegionHandleExpected", pos |-> pos,
                              op |-> op, t |-> Last(stack_type)])
               ELSE IF r.id # Last(stack_type).r.id
                    THEN Err([e |-> "RegionError", pos |-> pos, op |-> op, r |-> r,
                              r2 |-> Last(stack_type).r])
               ELSE IF ~InRgnVars(r, rgn_vars)
                    THEN Err([e |-> "RegionAccessError", pos |-> pos, op |-> op,
                              r |-> r])
               ELSE IF t.k # "Tuple"
                    THEN Err([e |-> "TypeErrorMallocNonTuple", pos |-> pos,
                              op |-> op, t |-> t])
               ELSE Ok([cts |-> Front(cts),
                        st |-> Append(Front(stack_type), TPtr(TTuple(uninit(t.ts)), r)),
                        vops |-> Append(verified_ops,
                                   [op |-> "Malloc", size |-> size(t)]),
                        acc |-> {r.id}])
       ELSE IF mb_type.k = "Type" /\ mb_type.t.k = "Tuple"
       THEN LET t == TTuple(uninit(mb_type.t.ts))
            IN Ok([cts |-> Front(cts),
                   st |-> Append(stack_type, t),
                   vops |-> Append(verified_ops, [op |-> "Alloca", size |-> size(t)])])
       ELSE Err(KindError(pos, op, "Type", mb_type))

\* a faulty variant of proj_f: the size handed on is the component's own
proj_f_own_size(i, op, component_types) ==
    IF i >= Len(component_types)
    THEN Err([e |-> "TypeErrorProjOutOfRange", pos |-> pos, i |-> i,
              len |-> Len(component_types)])
    ELSE IF component_types[i + 1].init
         THEN Ok([t |-> component_types[i + 1].t,
                  s |-> size(component_types[i + 1].t)])
         ELSE Err([e |-> "TypeErrorUninitializedRead", pos |-> pos, op |-> op,
                   i |-> i])

\* the closure f of Op1::Proj: the checks on component i; on Ok the caller's g
\* builds the result from the component's type t and the tuple's size s
proj_f(i, op, component_types) ==
    IF i >= Len(component_types)
    THEN Err([e |-> "TypeErrorProjOutOfRange", pos |-> pos, i |-> i,
              len |-> Len(component_types)])
    ELSE IF component_types[i + 1].init
         THEN Ok([t |-> component_types[i + 1].t, s |-> tuple_size(component_types)])
         ELSE Err([e |-> "TypeErrorUninitializedRead", pos |-> pos, op |-> op,
                   i |-> i])

op_proj(i) ==
    LET op == [op |-> "Proj", i |-> i]
    IN IF stack_type = <<>> THEN Err(EmptyStack(pos, op))
       ELSE
       LET tpl == Last(stack_type)
           rest == Front(stack_type)
           GTuple(t, s, cs) ==
               Ok([st |-> Append(rest, t),
                   vops |-> Append(verified_ops,
                              [op |-> "Proj", offset |-> offset_of(cs, i),
                               size |-> size(t), total |-> s])])
           GPtr(t, s, cs) ==
               Ok([st |-> Append(rest, t),
                   vops |-> Append(verified_ops,
                              [op |-> "ProjIP", offset |-> offset_of(cs, i),
                               size |-> size(t)]),
                   acc |-> {tpl.r.id}])
       IN CASE tpl.k = "Tuple" ->
                 LET c == proj_f(i, op, tpl.ts)
                 IN IF c.ok THEN GTuple(c.t, c.s, tpl.ts) ELSE c
            [] tpl.k = "Ptr" ->
                 IF ~InRgnVars(tpl.r, rgn_vars)
                 THEN Err([e |-> "RegionAccessError", pos |-> pos, op |-> op,
                           r |-> tpl.r])
                 ELSE IF tpl.t.k = "Tuple"
                      THEN LET c == proj_f(i, op, tpl.t.ts)
                           IN IF c.ok THEN GPtr(c.t, c.s, tpl.t.ts) ELSE c
                 ELSE Err([e |-> "TypeErrorTupleExpected", pos |-> pos, op |-> op,
                           t |-> tpl.t])
            [] OTHER -> Err([e |-> "TypeErrorTupleExpected", pos |-> pos, op |-> op,
                             t |-> tpl])

CallOp == [op |-> "Call"]

RECURSIVE handle_call(_, _, _, _)
handle_call(p, t, st, cts) ==
    CASE t.k = "Func" ->
            LET needed == Len(t.ts)
                arg_ts_present == [j \in 1..needed |-> st[Len(st) + 1 - j]]
            IN IF Len(st) < needed
               THEN Err([e |-> "TypeErrorNotEnoughRuntimeArgs", pos |-> p,
                         needed |-> needed, present |-> Len(st)])
               ELSE IF \A j \in 1..needed : type_eq(arg_ts_present[j], t.ts[j])
                    THEN Ok([st |-> SubSeq(st, 1, Len(st) - needed), cts |-> cts])
                    ELSE Err([e |-> "TypeErrorCallArgTypesMismatch", pos |-> p,
                              needed |-> t.ts, present |-> arg_ts_present])
      [] t.k = "Forall" ->
            IF cts = <<>> THEN Err(EmptyCTStack(p, CallOp))
            ELSE IF Last(cts).k # "Type"
                 THEN Err(KindError(p, CallOp, "Type", Last(cts)))
            ELSE IF size(Last(cts).t) # t.s
                 THEN Err([e |-> "SizeError", pos |-> p, op |-> CallOp,
                           expected |-> t.s, found |-> size(Last(cts).t)])
            ELSE handle_call(p, substitute_t(t.t, (t.id :> Last(cts).t), <<>>),
                             st, Front(cts))
      [] t.k = "ForallRegion" ->
            IF cts = <<>> THEN Err(EmptyCTStack(p, CallOp))
            ELSE IF Last(cts).k # "Region"
                 THEN Err(KindError(p, CallOp, "Region", Last(cts)))
            ELSE IF /\ t.r.unique
                    /\ \E j \in 1..Len(t.captured_rgns) :
                          t.captured_rgns[j].id = Last(cts).r.id
                 THEN Err([e |-> "RegionAccessError", pos |-> p, op |-> CallOp,
                           r |-> Last(cts).r])
            ELSE handle_call(p, substitute_t(t.t, <<>>, (t.r.id :> Last(cts).r)),
                             st, Front(cts))
      [] OTHER -> Err([e |-> "TypeErrorFunctionExpected", pos |-> p, op |-> CallOp,
                       t |-> t])

\* the identifiers of the regions among the slots above depth n of cts
RegionIdsAbove(cts, n) ==
    {cts[j].r.id : j \in {m \in (n + 1)..Len(cts) : cts[m].k = "Region"}}

\* a faulty variant of op_call: the function type is left on the stack
\* handle_call pops the arguments from
op_call_unpopped ==
    IF stack_type = <<>> THEN Err(EmptyStack(pos, CallOp))
    ELSE LET r == handle_call(pos, Last(stack_type), stack_type,
                              compile_time_stack)
         IN IF r.ok
            THEN Ok([st |-> r.st, cts |-> r.cts,
                     vops |-> Append(verified_ops, [op |-> "Call"])])
            ELSE r

op_call ==
    IF stack_type = <<>> THEN Err(EmptyStack(pos, CallOp))
    ELSE LET r == handle_call(pos, Last(stack_type), Front(stack_type),
                              compile_time_stack)
         IN IF r.ok
            THEN Ok([st |-> r.st, cts |-> r.cts,
                     vops |-> Append(verified_ops, [op |-> "Call"]),
                     acc |-> RegionIdsAbove(compile_time_stack, Len(r.cts))])
            ELSE r

\* Print and Halt: an I32 is popped
pop_i32(op, emitted) ==
    IF stack_type = <<>> THEN Err(EmptyStack(pos, op))
    ELSE IF Last(stack_type).k = "I32"
         THEN Ok([st |-> Front(stack_type), vops |-> Append(verified_ops, emitted)])
         ELSE Err([e |-> "TypeError", pos |-> pos, op |-> op, expected |-> TI32,
                   found |-> Last(stack_type)])

op_print == pop_i32([op |-> "Print"], [op |-> "Print"])
op_halt == pop_i32([op |-> "Halt"], [op |-> "Halt"])

\* a faulty variant of op_lit: the literal is emitted twice
op_lit_twice(lit) ==
    Ok([st |-> Append(stack_type, TI32),
        vops |-> verified_ops \o <<[op |-> "Lit", lit |-> lit], [op |-> "Lit", lit |-> lit]>>])

op_lit(lit) ==
    Ok([st |-> Append(stack_type, TI32),
        vops |-> Append(verified_ops, [op |-> "Lit", lit |-> lit])])

\* a faulty variant of op_globalfunc: the signature pushed is the one of
\* the function being verified
op_globalfunc_own(l) ==
    Ok([st |-> Append(stack_type, my_type),
        vops |-> Append(verified_ops, [op |-> "GlobalFunc", label |-> l])])

op_globalfunc(l) ==
    IF types[l] = NoType THEN Panicked
    ELSE Ok([st |-> Append(stack_type, types[l]),
             vops |-> Append(verified_ops, [op |-> "GlobalFunc", label |-> l])])

op_newrgn ==
    LET r == Region(TRUE, Id(label, fid))
    IN Ok([fid |-> fid + 1,
           rgn |-> Append(rgn_vars, r),
           st |-> Append(stack_type, THandle(r)),
           cts |-> Append(compile_time_stack, CTRegion(r)),
           vops |-> Append(verified_ops, [op |-> "NewRgn"])])

\* rgn_vars.iter().find(|r2| r.id == r2.id): the first entry with r's id
find_rgn(r, rgns) ==
    LET hits == {j \in 1..Len(rgns) : rgns[j].id = r.id}
    IN IF hits = {} THEN [found |-> FALSE]
       ELSE [found |-> TRUE,
             r2 |-> rgns[CHOOSE j \in hits : \A m \in hits : j <= m]]

\* a faulty variant of retain_rgn: every region is dropped
retain_none(r, rgns) == <<>>

\* rgn_vars.retain(|r2| r2.id != r.id)
retain_rgn(r, rgns) ==
    LET Keep(r2) == r2.id # r.id IN SelectSeq(rgns, Keep)

\* a faulty variant of op_freergn: an entry that is not a handle is reported
\* as an empty stack
op_freergn_empty ==
    LET op == [op |-> "FreeRgn"]
    IN IF stack_type = <<>> THEN Err(EmptyStack(pos, op))
       ELSE LET t == Last(stack_type)
            IN IF t.k # "Handle"
               THEN Err(EmptyStack(pos, op))
               ELSE LET f == find_rgn(t.r, rgn_vars)
                    IN IF ~f.found
                       THEN Err([e |-> "RegionAccessError", pos |-> pos, op |-> op,
                                 r |-> t.r])
                       ELSE IF ~f.r2.unique
                            THEN Err([e |-> "UniquenessError", pos |-> pos,
                                      op |-> op, r |-> t.r])
                       ELSE Ok([st |-> Front(stack_type),
                                rgn |-> retain_rgn(t.r, rgn_vars),
                                vops |-> Append(verified_ops, [op |-> "FreeRgn"]),
                                freed |-> freed \cup {t.r.id},
                                acc |-> {t.r.id}])

op_freergn ==
    LET op == [op |-> "FreeRgn"]
    IN IF stack_type = <<>> THEN Err(EmptyStack(pos, op))
       ELSE LET t == Last(stack_type)
            IN IF t.k # "Handle"
               THEN Err([e |-> "TypeErrorRegionHandleExpected", pos |-> pos,
                         op |-> op, t |-> t])
               ELSE LET f == find_rgn(t.r, rgn_vars)
                    IN IF ~f.found
                       THEN Err([e |-> "RegionAccessError", pos |-> pos, op |-> op,
                                 r |-> t.r])
                       ELSE IF ~f.r2.unique
                            THEN Err([e |-> "UniquenessError", pos |-> pos,
                                      op |-> op, r |-> t.r])
                       ELSE Ok([st |-> Front(stack_type),
                                rgn |-> retain_rgn(t.r, rgn_vars),
                                vops |-> Append(verified_ops, [op |-> "FreeRgn"]),
                                freed |-> freed \cup {t.r.id},
                                acc |-> {t.r.id}])

\* a faulty variant of op_deref: the pointer's region is not looked up in
\* rgn_vars
op_deref_unchecked ==
    LET op == [op |-> "Deref"]
    IN IF stack_type = <<>> THEN Err(EmptyStack(pos, op))
       ELSE LET t == Last(stack_type)
            IN IF t.k # "Ptr"
               THEN Err([e |-> "TypeErrorPtrExpected", pos |-> pos, op |-> op,
                         t |-> t])
               ELSE Ok([st |-> Append(Front(stack_type), t.t),
                        vops |-> Append(verified_ops,
                                   [op |-> "Deref", size |-> size(t.t)]),
                        acc |-> {t.r.id}])

op_deref ==
    LET op == [op |-> "Deref"]
    IN IF stack_type = <<>> THEN Err(EmptyStack(pos, op))
       ELSE LET t == Last(stack_type)
            IN IF t.k # "Ptr"
               THEN Err([e |-> "TypeErrorPtrExpected", pos |-> pos, op |-> op,
                         t |-> t])
               ELSE IF ~InRgnVars(t.r, rgn_vars)
                    THEN Err([e |-> "RegionAccessError", pos |-> pos, op |-> op,
                              r |-> t.r])
               ELSE Ok([st |-> Append(Front(stack_type), t.t),
                        vops |-> Append(verified_ops,
                                   [op |-> "Deref", size |-> size(t.t)]),
                        acc |-> {t.r.id}])

\* a faulty variant of op_app: the compile-time slot stays on its stack
op_app_unpopped ==
    LET op == [op |-> "App"]
        cts == compile_time_stack
    IN IF cts = <<>> THEN Err(EmptyCTStack(pos, op))
       ELSE
       LET arg == Last(cts)
           t == Last(stack_type)
           rest == Front(stack_type)
       IN CASE arg.k = "Type" ->
                 IF stack_type = <<>> THEN Err(EmptyCTStack(pos, op))
                 ELSE IF t.k # "Forall"
                      THEN Err([e |-> "TypeErrorForallExpected", pos |-> pos,
                                op |-> op, t |-> t])
                 ELSE IF t.s # size(arg.t)
                      THEN Err([e |-> "SizeError", pos |-> pos, op |-> op,
                                expected |-> t.s, found |-> size(arg.t)])
                 ELSE Ok([cts |-> cts,
                          st |-> Append(rest,
                                   substitute_t(t.t, (t.id :> arg.t), <<>>))])
            [] arg.k = "Region" ->
                 IF stack_type = <<>> THEN Err(EmptyCTStack(pos, op))
                 ELSE IF t.k # "ForallRegion"
                      THEN Err([e |-> "TypeErrorForallRegionExpected", pos |-> pos,
                                op |-> op, t |-> t])
                 ELSE IF /\ t.r.unique
                         /\ \E j \in 1..Len(t.captured_rgns) :
                               arg.r.id = t.captured_rgns[j].id
                      THEN Err([e |-> "RegionAccessError", pos |-> pos, op |-> op,
                                r |-> arg.r])
                 ELSE Ok([cts |-> cts,
                          st |-> Append(rest,
                                   substitute_t(t.t, <<>>, (t.r.id :> arg.r))),
                          acc |-> {arg.r.id}])
            [] OTHER -> Err([e |-> "KindErrorBadApp", pos |-> pos, op |-> op,
                             ctval |-> arg])

op_app ==
    LET op == [op |-> "App"]
        cts == compile_time_stack
    IN IF cts = <<>> THEN Err(EmptyCTStack(pos, op))
       ELSE
       LET arg == Last(cts)
           t == Last(stack_type)
           rest == Front(stack_type)
       IN CASE arg.k = "Type" ->
                 IF stack_type = <<>> THEN Err(EmptyCTStack(pos, op))
                 ELSE IF t.k # "Forall"
                      THEN Err([e |-> "TypeErrorForallExpected", pos |-> pos,
                                op |-> op, t |-> t])
                 ELSE IF t.s # size(arg.t)
                      THEN Err([e |-> "SizeError", pos |-> pos, op |-> op,
                                expected |-> t.s, found |-> size(arg.t)])
                 ELSE Ok([cts |-> Front(cts),
                          st |-> Append(rest,
                                   substitute_t(t.t, (t.id :> arg.t), <<>>))])
            [] arg.k = "Region" ->
                 IF stack_type = <<>> THEN Err(EmptyCTStack(pos, op))
                 ELSE IF t.k # "ForallRegion"
                      THEN Err([e |-> "TypeErrorForallRegionExpected", pos |-> pos,
                                op |-> op, t |-> t])
                 ELSE IF /\ t.r.unique
                         /\ \E j \in 1..Len(t.captured_rgns) :
                               arg.r.id = t.captured_rgns[j].id
                      THEN Err([e |-> "RegionAccessError", pos |-> pos, op |-> op,
                                r |-> arg.r])
                 ELSE Ok([cts |-> Front(cts),
                          st |-> Append(rest,
                                   substitute_t(t.t, <<>>, (t.r.id :> arg.r))),
                          acc |-> {arg.r.id}])
            [] OTHER -> Err([e |-> "KindErrorBadApp", pos |-> pos, op |-> op,
                             ctval |-> arg])

op_unpack ==
    LET op == [op |-> "Unpack"]
        cts == compile_time_stack
    IN IF cts = <<>> THEN Err(EmptyCTStack(pos, op))
       ELSE IF Last(cts).k # "Type" THEN Err(KindError(pos, op, "Type", Last(cts)))
       ELSE IF Last(cts).t.k # "Exists"
            THEN Err([e |-> "TypeErrorExistentialExpected", pos |-> pos, op |-> op,
                      t |-> Last(cts).t])
       ELSE Ok([cts |-> Append(Front(cts), CTType(Last(cts).t.t))])

op_pack ==
    LET op == [op |-> "Pack"]
        cts == compile_time_stack
    IN IF stack_type = <<>> THEN Err(EmptyStack(pos, op))
       ELSE IF cts = <<>> THEN Err(EmptyCTStack(pos, op))
       ELSE IF Last(cts).k # "Type" THEN Err(KindError(pos, op, "Type", Last(cts)))
       ELSE IF Front(cts) = <<>> THEN Err(EmptyCTStack(pos, op))
       ELSE
       LET type_of_hidden == Last(stack_type)
           hidden_type == Last(cts).t
           ex == Last(Front(cts))
       IN IF ex.k # "Type" THEN Err(KindError(pos, op, "Type", ex))
          ELSE IF ex.t.k # "Exists"
               THEN Err([e |-> "TypeErrorExistentialExpected", pos |-> pos,
                         op |-> op, t |-> ex.t])
          ELSE LET unpacked_type ==
                       substitute_t(ex.t.t, (ex.t.id :> hidden_type), <<>>)
               IN IF ~type_eq(type_of_hidden, unpacked_type)
                  THEN Err([e |-> "TypeError", pos |-> pos, op |-> op,
                            expected |-> unpacked_type, found |-> type_of_hidden])
                  ELSE IF ex.t.s # size(type_of_hidden)
                       THEN Err([e |-> "SizeError", pos |-> pos, op |-> op,
                                 expected |-> ex.t.s,
                                 found |-> size(type_of_hidden)])
                  ELSE Ok([cts |-> Front(Front(cts)),
                           st |-> Append(Front(stack_type), ex.t)])

D_Unique == DefStep(O("Unique"), Ok([nru |-> TRUE]))
D_Handle ==
    DefStep(O("Handle"), handle_handle(pos, O("Handle"), compile_time_stack))
D_I32 ==
    DefStep(O("I32"), Ok([cts |-> Append(compile_time_stack, CTType(TI32))]))
D_Tuple ==
    \E n \in Arities :
        DefStep(ON("Tuple", n),
                handle_tuple(n, pos, ON("Tuple", n), compile_time_stack))
D_Some ==
    DefStep(O("Some"),
            handle_some(pos, O("Some"), compile_time_stack, fid, label,
                        quantification_stack))
D_All ==
    DefStep(O("All"),
            handle_all(pos, O("All"), compile_time_stack, fid, label,
                       quantification_stack))
D_Rgn ==
    DefStep(O("Rgn"),
            handle_rgn(next_region_is_unique, label, fid, compile_time_stack,
                       quantification_stack))
\* in a body, Op1::End runs handle_rgn
D_End ==
    DefStep(O("End"),
            handle_rgn(next_region_is_unique, label, fid, compile_time_stack,
                       quantification_stack))
D_App == DefStep(O("App"), op_app)
D_Func ==
    \E n \in Arities :
        DefStep(ON("Func", n),
                handle_func(n, pos, ON("Func", n), compile_time_stack))
D_CTGet ==
    \E i \in Params, oc \in BOOLEAN :
        DefStep(OI("CTGet", i), handle_ctget(pos, i, compile_time_stack, oc))
\* Op1::Lced => panic!(..)
D_Lced == DefStep(O("Lced"), Panicked)
D_Unpack == DefStep(O("Unpack"), op_unpack)
D_Get == \E i \in Params : DefStep(OI("Get", i), op_get(i))
D_Init == \E i \in Params : DefStep(OI("Init", i), op_init(i))
D_Malloc == DefStep(O("Malloc"), op_malloc)
D_Proj == \E i \in Params : DefStep(OI("Proj", i), op_proj(i))
D_Call == DefStep(O("Call"), op_call)
D_Print == DefStep(O("Print"), op_print)
D_Lit == \E lit \in LitVals : DefStep([op |-> "Lit", lit |-> lit], op_lit(lit))
D_GlobalFunc == \E l \in Labels : DefStep([op |-> "GlobalFunc", label |-> l], op_globalfunc(l))
D_Halt == DefStep(O("Halt"), op_halt)
D_Pack == DefStep(O("Pack"), op_pack)
D_Size ==
    \E s \in Sizes :
        DefStep(OS("Size", s), Ok([cts |-> Append(compile_time_stack, CTSize(s))]))
D_NewRgn == DefStep(O("NewRgn"), op_newrgn)
D_FreeRgn == DefStep(O("FreeRgn"), op_freergn)
D_Ptr == DefStep(O("Ptr"), handle_ptr(pos, O("Ptr"), compile_time_stack))
D_Deref == DefStep(O("Deref"), op_deref)

\* the opcodes are exhausted: the end-of-function check, then Ok(Stmt2::Func(..))
DefinitionPassReturn ==
    /\ pc = "definition_pass" /\ cur_op' = NoOp
    /\ IF Len(quantification_stack) > 0
       THEN Abort([e |-> "TypeErrorNonEmptyQuantificationStack", label |-> label])
       ELSE /\ verified_stmts' =
                  Append(verified_stmts,
                         [label |-> label, type |-> my_type, ops |-> verified_ops])
            /\ n_stmts' = n_stmts + 1
            /\ pc' = "go_defs"
            /\ NoFunction
            /\ UNCHANGED <<result, fuel, decls, types, fresh_id, n_decs,
                           fun_vars, run_vars>>

\* the statements are exhausted: the entry-point check, then Ok(verified_stmts)
main_check(stmts) ==
    IF Len(stmts) > 0 /\ stmts[1].type.k = "Func" /\ Len(stmts[1].type.ts) # 0
    THEN [k |-> "err", err |-> [e |-> "TypeErrorMainHasArgs"]]
    ELSE [k |-> "ok", stmts |-> stmts]

GoReturn ==
    /\ pc = "go_defs" /\ cur_op' = NoOp
    /\ pc' = "done" /\ result' = main_check(verified_stmts)
    /\ NoProgram /\ NoFunction /\ UNCHANGED <<fun_vars, run_vars>>

TypePassOp ==
    \/ T_Unique \/ T_Handle \/ T_I32 \/ T_Tuple \/ T_Some \/ T_All \/ T_Rgn
    \/ T_End \/ T_Func \/ T_CTGet \/ T_Size \/ T_Ptr \/ T_Other

DefinitionPassOp ==
    \/ D_Unique \/ D_Handle \/ D_I32 \/ D_Tuple \/ D_Some \/ D_All \/ D_Rgn
    \/ D_End \/ D_App \/ D_Func \/ D_CTGet \/ D_Lced \/ D_Unpack \/ D_Get
    \/ D_Init \/ D_Malloc \/ D_Proj \/ D_Call \/ D_Print \/ D_Lit
    \/ D_GlobalFunc \/ D_Halt \/ D_Pack \/ D_Size \/ D_NewRgn \/ D_FreeRgn
    \/ D_Ptr \/ D_Deref

Next ==
    \/ GoTypes \/ GoDefinitions \/ GoDefinitionPass \/ DefinitionPassOp
    \/ DefinitionPassReturn \/ GoReturn

Spec == Init /\ [][Next]_vars

(***************************************************************************)
(* SpecMem: longer bodies over the opcodes that allocate, initialize and   *)
(* read tuples and that create, free and pass regions.                     *)
(***************************************************************************)
MemPrograms ==
    {<<Dec(0, Sig.Rgn), Dec(1, Sig.Int)>>,
     <<Dec(0, Sig.UniqueHandle)>>,
     <<Dec(0, Sig.UniquePtrHandle)>>,
     <<Dec(0, Sig.TwoHandle)>>,
     <<Dec(0, Sig.FreePtr)>>,
     <<Dec(0, Sig.OtherHandle)>>}

InitMem == \E ds \in MemPrograms : InitWith(ds, MaxMemOps)

MemOp ==
    \/ D_I32 \/ D_Tuple \/ D_Ptr \/ D_Malloc \/ D_Lit \/ D_Init
    \/ D_Proj \/ D_Deref \/ D_Get \/ D_FreeRgn

NextMem ==
    \/ GoTypes \/ GoDefinitions \/ GoDefinitionPass \/ MemOp
    \/ DefinitionPassReturn \/ GoReturn

SpecMem == InitMem /\ [][NextMem]_vars


(***************************************************************************)
(* SpecSig: one forward declaration read opcode by opcode, followed by     *)
(* statements with empty bodies.                                           *)
(***************************************************************************)
InitSig == InitWith(<<>>, 0)

NextSig ==
    \/ (n_decs = 0 /\ GoTypePass) \/ TypePassOp \/ TypePassReturn
    \/ GoDefinitions \/ GoDefinitionPass \/ DefinitionPassReturn \/ GoReturn

SpecSig == InitSig /\ [][NextSig]_vars

(***************************************************************************)
(* SpecFun: type_eq and substitute_t called on their own, on two types and *)
(* a substitution drawn from a bounded universe over two identifiers.      *)
(***************************************************************************)
FunIds == {Id(0, 0), Id(0, 1)}
FunTypes ==
    LET Rgns == {Region(FALSE, i) : i \in FunIds}
        Vars == {TVar(i, 1) : i \in FunIds}
        Atoms == {TI32} \cup Vars
        Quant1 ==
            {TForall(i, 1, t) : i \in FunIds, t \in Atoms}
                \cup {TExists(i, 1, t) : i \in FunIds, t \in Atoms}
        Quant2 ==
            {TForall(i, 1, TForall(j, 1, v)) : i \in FunIds, j \in FunIds, v \in Vars}
        Funcs == {TFunc(<<>>), TFunc(<<TI32>>), TFunc(<<TVar(Id(0, 0), 1)>>)}
        Handles == {THandle(r) : r \in Rgns}
        Region1 == {TForallRegion(r, h, <<>>) : r \in Rgns, h \in Handles}
        Region2 == {TForallRegion(r, t, <<>>) : r \in Rgns, t \in Region1}
    IN  Atoms \cup Quant1 \cup Quant2 \cup Funcs \cup Handles
            \cup Region1 \cup Region2

\* the substitutions: each maps some identifiers to ground types
FunSubsts ==
    UNION {[D -> {TI32, TFunc(<<>>)}] : D \in (SUBSET FunIds) \ {{}}}

InitFun ==
    /\ pc = "fun" /\ result = Running
    /\ decls = <<>> /\ fuel = 0
    /\ types = NoTypes /\ fresh_id = 0
    /\ n_decs = 0 /\ n_stmts = 0 /\ verified_stmts = <<>>
    /\ label = 0 /\ my_type = NoType /\ pos = 0 /\ fid = 0
    /\ next_region_is_unique = FALSE
    /\ compile_time_stack = <<>> /\ quantification_stack = <<>>
    /\ stack_type = <<>> /\ verified_ops = <<>> /\ rgn_vars = <<>>
    /\ freed = {} /\ acc = {} /\ cur_op = NoOp
    /\ in_type1 \in FunTypes /\ in_type2 \in FunTypes
    /\ in_tsubs \in FunSubsts
    /\ out_value = NoValue
    /\ input = NoValue /\ first_result = NoValue

\* type_eq(type1, type2) is called and returns
CallTypeEq ==
    /\ pc \in {"fun", "substituted"} /\ pc' = "done"
    /\ out_value' = [f |-> "type_eq", v |-> type_eq(in_type1, in_type2)]
    /\ UNCHANGED <<result, fuel, go_vars, fn_vars, cur_op,
                   in_type1, in_type2, in_tsubs, run_vars>>

\* substitute_t(typ, tsubs, {}) is called on both types and returns
CallSubstituteT ==
    /\ pc = "fun" /\ pc' = "substituted"
    /\ in_type1' = substitute_t(in_type1, in_tsubs, <<>>)
    /\ in_type2' = substitute_t(in_type2, in_tsubs, <<>>)
    /\ out_value' = [f |-> "substitute_t"]
    /\ UNCHANGED <<result, fuel, go_vars, fn_vars, cur_op, in_tsubs, run_vars>>

NextFun == CallTypeEq \/ CallSubstituteT

SpecFun == InitFun /\ [][NextFun]_vars

(***************************************************************************)
(* SpecTwice: go is called twice on one input.  The input (types_instrs,   *)
(* unverified_stmts) and the build (overflow_checks) are fixed before the  *)
(* first call; both calls read the declarations, the statements and their  *)
(* opcodes from it.  PairInRegion and FreeBeforeHalt are the two bodies of *)
(* the documentation's scenario "pair in unique region"; Shared is a body   *)
(* that passes the region it has just created for both region parameters   *)
(* of the function at label 1, by one call or by two apps.  The programs   *)
(* are those of Spec, one with two unique region parameters, one that      *)
(* declares label 0 alone, one whose signature leaves two types, and one   *)
(* that takes the handle of the second of two regions, the first of them   *)
(* marked unique.                                                          *)
(***************************************************************************)
Opcodes ==
    {O("Unique"), O("Handle"), O("I32"), O("Some"), O("All"), O("Rgn"),
     O("End"), O("App"), O("Lced"), O("Unpack"), O("Malloc"), O("Call"),
     O("Print"), O("Halt"), O("Pack"), O("NewRgn"), O("FreeRgn"), O("Ptr"),
     O("Deref")}
        \cup {ON("Tuple", n) : n \in Arities} \cup {ON("Func", n) : n \in Arities}
        \cup {OI("CTGet", i) : i \in Params} \cup {OI("Get", i) : i \in Params}
        \cup {OI("Init", i) : i \in Params} \cup {OI("Proj", i) : i \in Params}
        \cup {OS("Size", s) : s \in Sizes}
        \cup {[op |-> "Lit", lit |-> lit] : lit \in LitVals}
        \cup {[op |-> "GlobalFunc", label |-> l] : l \in Labels}

PairInRegion ==
    <<O("NewRgn"), OI("CTGet", 0), O("Handle"), O("I32"), O("I32"),
      ON("Tuple", 2), O("Malloc"), [op |-> "Lit", lit |-> 7], OI("Init", 0),
      [op |-> "Lit", lit |-> 7], OI("Init", 1), OI("Proj", 0), O("Halt"),
      O("FreeRgn")>>

FreeBeforeHalt ==
    <<O("NewRgn"), OI("CTGet", 0), O("Handle"), O("I32"), O("I32"),
      ON("Tuple", 2), O("Malloc"), [op |-> "Lit", lit |-> 7], OI("Init", 0),
      [op |-> "Lit", lit |-> 7], OI("Init", 1), OI("Proj", 0), O("FreeRgn"),
      O("Halt")>>

TwiceInputs ==
    LET Shared == <<O("NewRgn"), OI("CTGet", 0), [op |-> "GlobalFunc", label |-> 1]>>
        Bodies == {<<>>, PairInRegion, FreeBeforeHalt,
                   Shared \o <<O("Call")>>, Shared \o <<O("App"), O("App")>>,
                   <<O("Unique"), O("Rgn"), O("Rgn")>>}
                      \cup {<<a>> : a \in Opcodes}
                      \cup {<<a, b>> : a \in Opcodes, b \in Opcodes}
        Stmts == {Dec(l, b) : l \in Labels, b \in Bodies}
        Short == {Dec(l, b) : l \in Labels, b \in {<<>>, <<O("NewRgn")>>}}
    IN [types_instrs :
            Programs \cup {<<Dec(0, Sig.Main), Dec(1, Sig.TwoUnique)>>,
                           <<Dec(0, Sig.Main)>>, <<Dec(0, Sig.SecondHandle)>>,
                           <<Dec(0, <<O("I32"), O("I32")>>)>>},
        unverified_stmts :
            {<<>>} \cup {<<s>> : s \in Stmts}
                \cup {<<s, t>> : s \in Short, t \in Short},
        overflow_checks : BOOLEAN]

\* the opcodes of the statements: the body opcodes one call of go can read
InputFuel(in) ==
    SumSeq([j \in 1..Len(in.unverified_stmts) |-> Len(in.unverified_stmts[j].ops)])

InitTwice ==
    /\ pc = "go_types" /\ result = Running
    /\ input \in TwiceInputs /\ first_result = NoValue
    /\ decls = input.types_instrs /\ fuel = InputFuel(input)
    /\ types = NoTypes /\ fresh_id = 0
    /\ n_decs = 0 /\ n_stmts = 0 /\ verified_stmts = <<>>
    /\ label = 0 /\ my_type = NoType /\ pos = 0 /\ fid = 0
    /\ next_region_is_unique = FALSE
    /\ compile_time_stack = <<>> /\ quantification_stack = <<>>
    /\ stack_type = <<>> /\ verified_ops = <<>> /\ rgn_vars = <<>>
    /\ freed = {} /\ acc = {} /\ cur_op = NoOp
    /\ in_type1 = NoType /\ in_type2 = NoType /\ in_tsubs = <<>>
    /\ out_value = NoValue

\* the step reads what the input holds at the place go has come to, and a
\* subtraction that overflows ends as the build of the input has it
ReadsInput ==
    LET stmts == input.unverified_stmts
    IN CASE pc = "go_types" /\ pc' = "done" ->
                LET r == go_type_passes(decls, types, fresh_id,
                                        input.overflow_checks)
                IN /\ ~r.ok
                   /\ result' = IF r.panic THEN [k |-> "panic"]
                                ELSE [k |-> "err", err |-> r.err]
         [] pc = "go_defs" /\ pc' = "definition_pass" ->
                /\ n_stmts < Len(stmts)
                /\ label' = stmts[n_stmts + 1].label
         [] pc = "go_defs" /\ pc' = "done" /\ result'.k = "panic" ->
                /\ n_stmts < Len(stmts)
                /\ LET t == types[stmts[n_stmts + 1].label]
                   IN t = NoType \/ setup_verifier(t).panic
         [] pc = "go_defs" /\ pc' = "done" /\ result'.k # "panic" ->
                n_stmts = Len(stmts)
         [] pc = "definition_pass" /\ cur_op' # NoOp ->
                LET ops == stmts[n_stmts + 1].ops
                    k == pos - label + 1
                IN /\ k <= Len(ops) /\ cur_op' = ops[k]
                   /\ (cur_op'.op = "CTGet" /\ pc' = "done")
                         => (result'.k = "panic") = input.overflow_checks
         [] pc = "definition_pass" /\ cur_op' = NoOp ->
                pos - label = Len(stmts[n_stmts + 1].ops)
         [] OTHER -> TRUE

\* a faulty variant of GoAgain: the counter of identifiers starts at 1, as
\* a counter that outlives the first call would
GoAgainCounting ==
    /\ pc = "done" /\ input # NoValue /\ first_result = NoValue
    /\ first_result' = result
    /\ pc' = "go_types" /\ result' = Running /\ cur_op' = NoOp
    /\ decls' = input.types_instrs /\ fuel' = InputFuel(input)
    /\ types' = NoTypes /\ fresh_id' = 1
    /\ n_decs' = 0 /\ n_stmts' = 0 /\ verified_stmts' = <<>>
    /\ UNCHANGED <<fn_vars, fun_vars, input>>

\* go has returned and is called again on the same input
GoAgain ==
    /\ pc = "done" /\ input # NoValue /\ first_result = NoValue
    /\ first_result' = result
    /\ pc' = "go_types" /\ result' = Running /\ cur_op' = NoOp
    /\ decls' = input.types_instrs /\ fuel' = InputFuel(input)
    /\ types' = NoTypes /\ fresh_id' = 0
    /\ n_decs' = 0 /\ n_stmts' = 0 /\ verified_stmts' = <<>>
    /\ UNCHANGED <<fn_vars, fun_vars, input>>

NextTwice == (Next /\ ReadsInput) \/ GoAgain

SpecTwice == InitTwice /\ [][NextTwice]_vars
(***************************************************************************)
(* Properties.  A step of the opcode loop of definition_pass reads cur_op' *)
(* in a state with pc = "definition_pass"; the opcode is accepted when the *)
(* loop goes on (pc' = "definition_pass") and rejected when go returns the *)
(* error (pc' = "done").                                                   *)
(***************************************************************************)
Reads(o) == pc = "definition_pass" /\ cur_op' = o
ReadsOp(name) == pc = "definition_pass" /\ cur_op'.op = name
Accepted == pc' = "definition_pass"
RejectedWith(e) == pc' = "done" /\ result'.k = "err" /\ result'.err.e = e
Rejected == pc' = "done" /\ result'.k = "err"

\* region r is in the live region set
Live(r) == \E j \in 1..Len(rgn_vars) : rgn_vars[j].id = r.id
IsPtrToTuple(t) == t.k = "Ptr" /\ t.t.k = "Tuple"
IsTupleValue(t) == t.k = "Tuple" \/ IsPtrToTuple(t)
\* the components of a tuple, direct or behind a pointer
Components(t) == IF t.k = "Tuple" THEN t.ts ELSE t.t.ts
\* the entry init and proj take their tuple from
InitTarget == stack_type[Len(stack_type) - 1]
ProjTarget == Last(stack_type)

RECURSIVE FuncArgs(_)
\* the argument types of a function type under its quantifiers
FuncArgs(t) ==
    CASE t.k = "Func" -> t.ts
      [] t.k \in {"Forall", "ForallRegion"} -> FuncArgs(t.t)
      [] OTHER -> <<>>

RECURSIVE Binders(_)
\* the binders of a quantified type as compile-time values, outermost first
Binders(t) ==
    CASE t.k = "Forall" -> <<CTType(TVar(t.id, t.s))>> \o Binders(t.t)
      [] t.k = "ForallRegion" -> <<CTRegion(t.r)>> \o Binders(t.t)
      [] OTHER -> <<>>

RECURSIVE RegionBinders(_)
\* the regions a quantified type binds, outermost first
RegionBinders(t) ==
    CASE t.k = "Forall" -> RegionBinders(t.t)
      [] t.k = "ForallRegion" -> <<t.r>> \o RegionBinders(t.t)
      [] OTHER -> <<>>

\* the table the first loop of go builds from the declarations ds
SigTable(ds) ==
    LET r == go_type_passes(ds, NoTypes, 0, TRUE)
    IN IF r.ok THEN r.types ELSE NoTypes

\* the run-time entries an opcode pops (at most)
Popped(o) ==
    CASE o.op \in {"Proj", "Deref", "FreeRgn", "Print", "Halt", "Pack", "App",
                   "Malloc"} -> 1
      [] o.op = "Init" -> 2
      [] o.op = "Call" -> Len(stack_type)
      [] OTHER -> 0

\* the entries an accepted opcode does not pop stay as they are
StackFrame ==
    \A j \in 1..(Len(stack_type) - Popped(cur_op')) :
        j <= Len(stack_type') /\ stack_type'[j] = stack_type[j]

\* C1: unique-region safety.  Once free-region has consumed Handle(r), no
\* later opcode of the body is accepted that accesses region r: not through
\* a pointer in r (init, proj, deref, malloc), not by freeing r again, and
\* not by passing r as the region argument of call or app.
C1_UniqueRegionSafety ==
    [][pc = "definition_pass" /\ Accepted => acc' \cap freed = {}]_vars

\* init, proj and deref through a pointer whose region is not live fail with
\* RegionAccessError
DeadPointerAccess ==
    /\ \A i \in Params :
          (/\ Reads(OI("Init", i)) /\ Len(stack_type) >= 2
           /\ IsPtrToTuple(InitTarget) /\ ~Live(InitTarget.r))
              => RejectedWith("RegionAccessError")
    /\ \A i \in Params :
          (/\ Reads(OI("Proj", i)) /\ stack_type # <<>>
           /\ IsPtrToTuple(ProjTarget) /\ ~Live(ProjTarget.r))
              => RejectedWith("RegionAccessError")
    /\ (/\ Reads(O("Deref")) /\ stack_type # <<>>
        /\ ProjTarget.k = "Ptr" /\ ~Live(ProjTarget.r))
           => RejectedWith("RegionAccessError")

\* malloc reads a pointer type whose region is not live
DeadMalloc ==
    /\ Reads(O("Malloc")) /\ compile_time_stack # <<>>
    /\ Last(compile_time_stack).k = "Type"
    /\ Last(compile_time_stack).t.k = "Ptr"
    /\ ~Live(Last(compile_time_stack).t.r)

\* the run-time stack's top is a handle of the region of malloc's pointer type
MallocHandleMatches ==
    /\ stack_type # <<>> /\ Last(stack_type).k = "Handle"
    /\ Last(stack_type).r.id = Last(compile_time_stack).t.r.id

\* C2: region liveness on access.  init and proj on a pointer to a tuple in
\* region r, deref of a pointer in r and malloc of a pointer type in r are
\* accepted only if r is in the live region set.  When r is not live, init,
\* proj and deref fail with RegionAccessError; malloc fails too, with
\* RegionAccessError when the top of the run-time stack is a handle of r and
\* with the error of its handle check otherwise.
C2_RegionLiveness ==
    [][/\ DeadPointerAccess
       /\ DeadMalloc => Rejected
       /\ (DeadMalloc /\ MallocHandleMatches)
             => RejectedWith("RegionAccessError")]_vars

\* C2 as stated: each of the four opcodes, malloc included, fails with
\* RegionAccessError whenever the region is not live.
C2_Stated ==
    [][/\ DeadPointerAccess
       /\ DeadMalloc => RejectedWith("RegionAccessError")]_vars

\* C2: malloc was refused because the region of its pointer type was freed
C2_Witness ==
    /\ pc = "done" /\ result.k = "err"
    /\ result.err.e = "RegionAccessError" /\ cur_op = O("Malloc")

\* an accepted proj(i) reads a component flagged initialized
ProjReadsInitialized ==
    \A i \in Params :
        (Reads(OI("Proj", i)) /\ Accepted)
            => /\ stack_type # <<>> /\ IsTupleValue(ProjTarget)
               /\ i < Len(Components(ProjTarget))
               /\ Components(ProjTarget)[i + 1].init

\* proj(i) reads component i of a tuple, and its flag is false
ProjOfUninitialized(i) ==
    /\ Reads(OI("Proj", i)) /\ stack_type # <<>> /\ IsTupleValue(ProjTarget)
    /\ i < Len(Components(ProjTarget))
    /\ ~Components(ProjTarget)[i + 1].init

\* the tuple malloc pushes has every flag false
MallocClearsFlags ==
    (Reads(O("Malloc")) /\ Accepted)
        => /\ stack_type' # <<>> /\ IsTupleValue(Last(stack_type'))
           /\ \A k \in 1..Len(Components(Last(stack_type'))) :
                 ~Components(Last(stack_type'))[k].init

\* no opcode but init changes an entry it does not pop
OnlyInitRaises ==
    (pc = "definition_pass" /\ Accepted /\ cur_op'.op # "Init") => StackFrame

InitOfInitialized(i) ==
    /\ Reads(OI("Init", i)) /\ Len(stack_type) >= 2
    /\ IsTupleValue(InitTarget)
    /\ i < Len(Components(InitTarget))
    /\ Components(InitTarget)[i + 1].init

DoubleInitError(i) == RejectedWith("TypeErrorDoubleInit") /\ result'.err.i = i

\* after an accepted init(i) the tuple on top has component i flagged
InitSetsFlag ==
    \A i \in Params :
        (Reads(OI("Init", i)) /\ Accepted)
            => /\ stack_type' # <<>> /\ IsTupleValue(Last(stack_type'))
               /\ i < Len(Components(Last(stack_type')))
               /\ Components(Last(stack_type'))[i + 1].init

\* C4: double init is rejected.  init(i) on a tuple whose component i is
\* already flagged initialized fails with TypeErrorDoubleInit carrying i,
\* for a direct tuple and for a pointer to a tuple in a live region (in a
\* region that is not live it fails with RegionAccessError); an accepted
\* init(i) leaves component i flagged, so a second init(i) on that tuple
\* value fails.
C4_DoubleInitRejected ==
    [][/\ \A i \in Params :
             (/\ InitOfInitialized(i)
              /\ IsPtrToTuple(InitTarget) => Live(InitTarget.r))
                 => DoubleInitError(i)
       /\ \A i \in Params : InitOfInitialized(i) => Rejected
       /\ InitSetsFlag]_vars

\* C4 as stated: TypeErrorDoubleInit for every pointer to a tuple too.
C4_Stated ==
    [][/\ \A i \in Params : InitOfInitialized(i) => DoubleInitError(i)
       /\ InitSetsFlag]_vars

\* C4: the second of two init on one tuple value was refused
C4_Witness ==
    /\ pc = "done" /\ result.k = "err"
    /\ result.err.e = "TypeErrorDoubleInit" /\ result.err.pos >= 6

\* init(i) raises flag i of its tuple and no other
InitRaisesOne ==
    \A i \in Params :
        (Reads(OI("Init", i)) /\ Accepted)
            => LET n == Len(stack_type)
                   before == Components(InitTarget)
                   after == Components(stack_type'[n - 1])
               IN /\ Len(stack_type') = n - 1
                  /\ IsTupleValue(stack_type'[n - 1])
                  /\ stack_type'[n - 1].k = InitTarget.k
                  /\ Len(after) = Len(before)
                  /\ ~before[i + 1].init /\ after[i + 1].init
                  /\ \A k \in 1..Len(before) :
                        k # i + 1 => after[k].init = before[k].init

\* C5: init monotonicity.  Across the opcodes of a body, the flags of a
\* tuple value that stays on the run-time stack never go from true to
\* false: an opcode leaves the entries it does not pop as they are, and
\* init(i) changes only flag i of its tuple, from false to true.
C5_InitMonotonicity ==
    [][(pc = "definition_pass" /\ Accepted) => StackFrame /\ InitRaisesOne]_vars

\* C5: one component of a two-component tuple has been initialized
C5_Witness ==
    /\ pc = "definition_pass" /\ cur_op = OI("Init", 0)
    /\ stack_type # <<>> /\ Last(stack_type).k = "Tuple"
    /\ Len(Last(stack_type).ts) = 2
    /\ Last(stack_type).ts[1].init /\ ~Last(stack_type).ts[2].init

\* C6: entry-point check.  go returns Ok only when the signature of the
\* first function takes no argument, whether the function type is bare or
\* wrapped in type or region quantifiers.
C6_EntryPointCheck ==
    (pc = "done" /\ result.k = "ok" /\ result.stmts # <<>>)
        => FuncArgs(result.stmts[1].type) = <<>>

\* C7: phase ordering.  While any body is verified the label table holds the
\* signature of every declaration, and an accepted GlobalFunc(l) pushes the
\* signature recorded for l, wherever l's declaration stands in the list.
C7_PhaseOrdering ==
    [][/\ pc' \in {"go_defs", "definition_pass"} => types' = SigTable(decls')
       /\ \A l \in Labels :
             (Reads([op |-> "GlobalFunc", label |-> l]) /\ Accepted)
                 => /\ SigTable(decls)[l] # NoType
                    /\ stack_type' = Append(stack_type, SigTable(decls)[l])]_vars

\* C7: the body of the first declaration pushed the signature of the second
C7_Witness ==
    /\ pc = "definition_pass" /\ label = 0
    /\ cur_op = [op |-> "GlobalFunc", label |-> 1]
    /\ Len(decls) = 2 /\ decls[1].label = 0 /\ decls[2].label = 1
    /\ Last(stack_type) = types[1]

\* e is the error of the first declaration of ds whose type_pass fails
FirstFailingSignature(ds, e) ==
    \E j \in 1..Len(ds), oc \in BOOLEAN :
        LET before == go_type_passes(SubSeq(ds, 1, j - 1), NoTypes, 0, oc)
        IN /\ before.ok
           /\ LET r == type_pass(ds[j], before.fresh_id, oc)
              IN ~r.ok /\ ~r.panic /\ r.err = e

\* C8: first failure wins.  go returns one Error and no elaborated function;
\* the error is that of the first failing check: of the first failing
\* declaration in list order, of the opcode at the position the body's loop
\* has reached, of the end of a body, or of the entry-point check after the
\* last body; and nothing is interpreted after go has returned.
C8_FirstFailureWins ==
    [][/\ pc # "done"
       /\ result'.k = "err"
             => /\ pc' = "done" /\ DOMAIN result' = {"k", "err"}
                /\ verified_stmts' = <<>>
                /\ pc = "go_types" => FirstFailingSignature(decls, result'.err)
                /\ (pc = "definition_pass" /\ cur_op' # NoOp)
                      => /\ "pos" \in DOMAIN result'.err
                         /\ result'.err.pos = pos
                /\ (pc = "definition_pass" /\ cur_op' = NoOp)
                      => result'.err =
                            [e |-> "TypeErrorNonEmptyQuantificationStack",
                             label |-> label]
                /\ pc = "go_defs" => result'.err.e = "TypeErrorMainHasArgs"]_vars

\* C8: the third opcode of a body failed after two were accepted
C8_Witness ==
    /\ pc = "done" /\ result.k = "err" /\ cur_op = O("Halt")
    /\ result.err.e = "TypeErrorEmptyStack" /\ result.err.pos >= 2

\* call reads a bare function type from the top of the run-time stack
CallOfFunc == Reads(O("Call")) /\ stack_type # <<>> /\ Last(stack_type).k = "Func"

\* the entry the k-th pop of the arguments takes
KthPopped(k) == stack_type[Len(stack_type) - k]

\* C9: call argument check.  call on Func(ts) is accepted only if the stack
\* below the function holds at least |ts| types and the k-th popped is
\* type_eq to the k-th argument type; then the function and its |ts|
\* arguments are removed and a Call is emitted.  With too few entries it
\* fails with TypeErrorNotEnoughRuntimeArgs, with a mismatch with
\* TypeErrorCallArgTypesMismatch, on a type that is no function with
\* TypeErrorFunctionExpected; a call accepted on a quantified function type
\* removes as many arguments as the function under the quantifiers takes.
C9_CallArgumentCheck ==
    [][/\ CallOfFunc =>
             LET ts == Last(stack_type).ts
                 below == Len(stack_type) - 1
             IN IF below < Len(ts)
                THEN RejectedWith("TypeErrorNotEnoughRuntimeArgs")
                ELSE IF \A k \in 1..Len(ts) : type_eq(KthPopped(k), ts[k])
                THEN /\ Accepted
                     /\ stack_type' = SubSeq(stack_type, 1, below - Len(ts))
                     /\ verified_ops' = Append(verified_ops, [op |-> "Call"])
                     /\ compile_time_stack' = compile_time_stack
                ELSE RejectedWith("TypeErrorCallArgTypesMismatch")
       /\ (/\ Reads(O("Call")) /\ stack_type # <<>>
           /\ Last(stack_type).k \notin {"Func", "Forall", "ForallRegion"})
             => RejectedWith("TypeErrorFunctionExpected")
       /\ (Reads(O("Call")) /\ Accepted)
             => /\ stack_type # <<>>
                /\ Len(stack_type') =
                      Len(stack_type) - 1 - Len(FuncArgs(Last(stack_type)))
                /\ Last(verified_ops') = [op |-> "Call"]]_vars

\* C9: a function of two arguments of different types was called
C9_Witness ==
    /\ pc = "definition_pass" /\ cur_op = O("Call")
    /\ my_type.k = "Func" /\ Len(my_type.ts) = 2
    /\ ~type_eq(my_type.ts[1], my_type.ts[2])
    /\ stack_type = <<>>
    /\ verified_ops = <<[op |-> "GlobalFunc", label |-> label], [op |-> "Call"]>>

\* C10: signature round-trip.  A body starts with the run-time stack holding
\* the argument types of its signature, the first argument on top as call
\* pops them (so a call of the function on the starting stack is accepted),
\* with the compile-time stack holding the signature's binders, outermost
\* deepest, and the live region set equal to the region binders.
C10_SignatureRoundTrip ==
    (pc = "definition_pass" /\ cur_op = NoOp)
        => LET ts == FuncArgs(my_type)
           IN /\ my_type = types[label]
              /\ Len(stack_type) = Len(ts)
              /\ \A k \in 1..Len(ts) : stack_type[Len(ts) + 1 - k] = ts[k]
              /\ handle_call(pos, TFunc(ts), stack_type, <<>>).ok
              /\ compile_time_stack = Binders(my_type)
              /\ rgn_vars = RegionBinders(my_type)

\* C10: a body starts under a region binder with two different arguments
C10_Witness ==
    /\ pc = "definition_pass" /\ cur_op = NoOp
    /\ my_type.k = "ForallRegion" /\ Len(stack_type) = 2
    /\ stack_type[1] # stack_type[2]
    /\ Len(rgn_vars) = 1


\* the innermost binding of an identifier on one side of the binder pairs env
BoundAt(env, side, id) == {j \in 1..Len(env) : env[j][side] = id}
Innermost(S) == CHOOSE j \in S : \A k \in S : k <= j
\* two identifiers denote the same variable under the binder pairs env
SameVar(id1, id2, env) ==
    LET b1 == BoundAt(env, 1, id1)
        b2 == BoundAt(env, 2, id2)
    IN IF b1 = {} /\ b2 = {} THEN id1 = id2
       ELSE b1 # {} /\ b2 # {} /\ Innermost(b1) = Innermost(b2)
SameRegion(r1, r2, env) == r1.unique = r2.unique /\ SameVar(r1.id, r2.id, env)

RECURSIVE AlphaEqIn(_, _, _, _)
\* two types are equal up to renaming of bound variables, under the type
\* binder pairs vs and the region binder pairs rs
AlphaEqIn(t1, t2, vs, rs) ==
    CASE t1.k # t2.k -> FALSE
      [] t1.k = "I32" -> TRUE
      [] t1.k = "Handle" -> SameRegion(t1.r, t2.r, rs)
      [] t1.k = "Tuple" ->
            /\ Len(t1.ts) = Len(t2.ts)
            /\ \A j \in 1..Len(t1.ts) :
                  /\ t1.ts[j].init = t2.ts[j].init
                  /\ AlphaEqIn(t1.ts[j].t, t2.ts[j].t, vs, rs)
      [] t1.k = "Ptr" ->
            SameRegion(t1.r, t2.r, rs) /\ AlphaEqIn(t1.t, t2.t, vs, rs)
      [] t1.k = "Var" -> t1.s = t2.s /\ SameVar(t1.id, t2.id, vs)
      [] t1.k = "Func" ->
            /\ Len(t1.ts) = Len(t2.ts)
            /\ \A j \in 1..Len(t1.ts) : AlphaEqIn(t1.ts[j], t2.ts[j], vs, rs)
      [] t1.k \in {"Exists", "Forall"} ->
            /\ t1.s = t2.s
            /\ AlphaEqIn(t1.t, t2.t, Append(vs, <<t1.id, t2.id>>), rs)
      [] t1.k = "ForallRegion" ->
            /\ t1.r.unique = t2.r.unique
            /\ AlphaEqIn(t1.t, t2.t, vs, Append(rs, <<t1.r.id, t2.r.id>>))
      [] OTHER -> FALSE

AlphaEq(t1, t2) == AlphaEqIn(t1, t2, <<>>, <<>>)

\* C11: type_eq is alpha-equivalence.  type_eq(t1, t2) returns true exactly
\* when t1 and t2 are equal up to consistent renaming of the variables bound
\* by Forall, Exists and ForallRegion.
C11_TypeEqIsAlphaEquivalence ==
    out_value.f = "type_eq" => out_value.v = AlphaEq(in_type1, in_type2)

\* C20: substitution commutes with equality.  For types t, t' and a ground
\* substitution s, type_eq of the two substituted types holds if and only
\* if type_eq of t and t' holds.
C20_SubstitutionCommutes ==
    [][(pc = "fun" /\ pc' = "substituted")
          => (type_eq(in_type1', in_type2') <=> type_eq(in_type1, in_type2))]_vars

RECURSIVE SizeOfTop(_, _)
\* the sizes of the top i entries of the run-time stack st, summed
SizeOfTop(st, i) ==
    IF i = 0 THEN 0 ELSE size(Last(st)) + SizeOfTop(Front(st), i - 1)

\* C12: layout soundness of get.  The Get(off, sz) an accepted get(i) emits
\* has sz the size of the i-th type from the top of the run-time stack and
\* off the sum of the sizes of the i entries above it, 0 when i = 0.
C12_GetLayout ==
    [][\A i \in Params :
          (Reads(OI("Get", i)) /\ Accepted)
              => /\ i < Len(stack_type)
                 /\ verified_ops' =
                       Append(verified_ops,
                              [op |-> "Get",
                               offset |-> SizeOfTop(stack_type, i),
                               size |-> size(stack_type[Len(stack_type) - i])])
                 /\ (i = 0 => Last(verified_ops').offset = 0)]_vars

\* C12: get(1) copied the entry under a two-word tuple
C12_Witness ==
    /\ pc = "definition_pass" /\ cur_op = OI("Get", 1)
    /\ Len(stack_type) >= 3
    /\ size(stack_type[Len(stack_type) - 1]) = 2
    /\ Last(verified_ops) = [op |-> "Get", offset |-> 2, size |-> 1]

\* the identifiers of the regions in a live region set
IdsOf(rgns) == {rgns[j].id : j \in 1..Len(rgns)}

\* C13: capability monotonicity.  Among the body opcodes only new-region
\* and an accepted free-region change the live region set: new-region adds
\* exactly the region whose handle it pushes, free-region removes exactly
\* the region of the handle it pops, and every other opcode leaves the set
\* as it is.
C13_CapabilityMonotonicity ==
    [][(pc = "definition_pass" /\ Accepted)
          => CASE cur_op'.op = "NewRgn" ->
                    /\ rgn_vars' = Append(rgn_vars, Last(stack_type').r)
                    /\ Last(stack_type').k = "Handle"
               [] cur_op'.op = "FreeRgn" ->
                    /\ Last(stack_type).r.id \in IdsOf(rgn_vars)
                    /\ IdsOf(rgn_vars') = IdsOf(rgn_vars) \ {Last(stack_type).r.id}
                    /\ \A j \in 1..Len(rgn_vars') :
                          \E m \in 1..Len(rgn_vars) : rgn_vars'[j] = rgn_vars[m]
               [] OTHER -> rgn_vars' = rgn_vars]_vars

\* C13: of two live regions, free-region removed the one it was given
C13_Witness ==
    /\ pc = "definition_pass" /\ cur_op = O("FreeRgn")
    /\ Len(rgn_vars) = 1 /\ freed # {} /\ rgn_vars[1].id \notin freed

\* the positions of the run-time stack st that hold Handle(r)
HandlesOf(st, r) == {j \in 1..Len(st) : st[j].k = "Handle" /\ st[j].r.id = r.id}
\* the unique regions that have a handle on the run-time stack st
UniqueHandled(st) ==
    {st[j].r : j \in {m \in 1..Len(st) : st[m].k = "Handle" /\ st[m].r.unique}}

\* C14: handle linearity.  While a body is verified, each unique region has
\* at most one Handle entry on the run-time stack.
C14_HandleLinearity ==
    pc = "definition_pass"
        => \A r \in UniqueHandled(stack_type) :
              Cardinality(HandlesOf(stack_type, r)) <= 1

\* type_pass reads the opcode o; it goes on to the next opcode
SigReads(o) == pc = "type_pass" /\ cur_op' = o
SigAccepted == pc' = "type_pass"
\* the compile-time value minted when the frame q was opened
Minted(q) == IF q.k = "Region" THEN CTRegion(q.r) ELSE CTType(TVar(q.id, q.s))
\* the type END builds for the frame q around the body t
Wrapped(q, t) ==
    CASE q.k = "Forall" -> TForall(q.id, q.s, t)
      [] q.k = "Exist" -> TExists(q.id, q.s, t)
      [] q.k = "Region" -> TForallRegion(q.r, t, <<>>)
\* END finds a body type on top of the variable its innermost frame minted
EndCloses ==
    /\ quantification_stack # <<>> /\ Len(compile_time_stack) >= 2
    /\ Last(compile_time_stack).k = "Type"
    /\ compile_time_stack[Len(compile_time_stack) - 1] =
          Minted(Last(quantification_stack))

\* C15: quantifier closing in signature synthesis.  In type_pass, END
\* succeeds exactly when the quantification stack is not empty, the top of
\* the compile-time stack is a type and the slot under it is the variable
\* or region minted when the innermost frame was opened; it then replaces
\* the two slots by the Forall, Exists or ForallRegion of that frame around
\* the body and pops the frame.  Otherwise it fails with an error, with
\* TypeErrorEmptyQuantificationStack when no frame is open.
C15_QuantifierClosing ==
    [][SigReads(O("End"))
          => /\ SigAccepted <=> EndCloses
             /\ SigAccepted
                   => LET n == Len(compile_time_stack)
                          q == Last(quantification_stack)
                      IN /\ quantification_stack' = Front(quantification_stack)
                         /\ compile_time_stack' =
                               Append(SubSeq(compile_time_stack, 1, n - 2),
                                      CTType(Wrapped(q, compile_time_stack[n].t)))
             /\ ~SigAccepted => Rejected
             /\ quantification_stack = <<>>
                   => RejectedWith("TypeErrorEmptyQuantificationStack")]_vars

\* C15: two nested region frames were closed, the inner one first
C15_Witness ==
    /\ pc = "type_pass" /\ cur_op = O("End") /\ quantification_stack = <<>>
    /\ Len(compile_time_stack) = 1
    /\ Last(compile_time_stack).t.k = "ForallRegion"
    /\ Last(compile_time_stack).t.t.k = "ForallRegion"
    /\ Last(compile_time_stack).t.r # Last(compile_time_stack).t.t.r

\* the opcode loop of definition_pass is over
BodyEnds == pc = "definition_pass" /\ cur_op' = NoOp

\* C16: quantifier balance in bodies.  At the end of a body definition_pass
\* fails with TypeErrorNonEmptyQuantificationStack exactly when a frame is
\* still open, and an END accepted in a body closes the innermost open
\* frame, so that the quantification stack is back at its previous depth.
C16_QuantifierBalance ==
    [][/\ BodyEnds
          => (RejectedWith("TypeErrorNonEmptyQuantificationStack")
                 <=> quantification_stack # <<>>)
       /\ (ReadsOp("End") /\ Accepted /\ quantification_stack # <<>>)
             => quantification_stack' = Front(quantification_stack)]_vars

RECURSIVE BoundIds(_)
\* the identifiers a type binds: they were minted when its frames were opened
BoundIds(t) ==
    CASE t.k \in {"Forall", "Exists"} -> {t.id} \cup BoundIds(t.t)
      [] t.k = "ForallRegion" -> {t.r.id} \cup BoundIds(t.t)
      [] t.k = "Ptr" -> BoundIds(t.t)
      [] t.k = "Func" -> UNION {BoundIds(t.ts[j]) : j \in 1..Len(t.ts)}
      [] t.k = "Tuple" -> UNION {BoundIds(t.ts[j].t) : j \in 1..Len(t.ts)}
      [] OTHER -> {}
\* the identifiers minted for the signatures in the label table
SignatureIds == UNION {BoundIds(types[l]) : l \in Labels}
\* a body opcode that mints an identifier is accepted
BodyMints ==
    /\ pc = "definition_pass" /\ Accepted
    /\ cur_op'.op \in {"All", "Some", "Rgn", "End", "NewRgn"}

\* C17: fresh identifiers are unique.  The identifier a body opcode mints
\* (all, some, region, new-region) is none of the identifiers minted for the
\* signatures of the run, in particular not one minted for the signature of
\* the function the body belongs to.
C17_FreshIdsUnique ==
    [][BodyMints => Id(label, fid) \notin SignatureIds]_vars

\* the kinds a constructor opcode expects of the compile-time slots it pops,
\* the first popped first
KindsPopped(o) ==
    CASE o.op = "Handle" -> <<"Region">>
      [] o.op \in {"Tuple", "Func"} -> [j \in 1..o.n |-> "Type"]
      [] o.op = "Ptr" -> <<"Type", "Region">>
      [] o.op \in {"Some", "All"} -> <<"Size">>
      [] o.op \in {"Unpack", "Malloc"} -> <<"Type">>
      [] o.op = "Pack" -> <<"Type", "Type">>
      [] OTHER -> <<>>
\* the j-th compile-time slot from the top
Slot(j) == compile_time_stack[Len(compile_time_stack) + 1 - j]
\* the pops that do not find a slot of the expected kind
BadPops(ks) ==
    {j \in 1..Len(ks) : j > Len(compile_time_stack) \/ Slot(j).k # ks[j]}
\* go returns the error e, tagged with the opcode o
RejectedBy(e, o) == RejectedWith(e) /\ result'.err.op = o
\* the first pop without a slot of its kind decides the error
KindChecked(ks, o) ==
    BadPops(ks) # {}
        => LET j == CHOOSE m \in BadPops(ks) : \A k \in BadPops(ks) : m <= k
           IN IF j > Len(compile_time_stack)
              THEN RejectedBy("TypeErrorEmptyCTStack", o)
              ELSE /\ RejectedBy("KindError", o)
                   /\ result'.err.kind = ks[j] /\ result'.err.ctval = Slot(j)
\* the constructor opcodes of a body other than pack, app and call
ConstructorKinds ==
    (pc = "definition_pass" /\ cur_op'.op # "Pack")
        => KindChecked(KindsPopped(cur_op'), cur_op')
\* the instantiation of a quantifier by call
CallKinds ==
    (/\ Reads(O("Call")) /\ stack_type # <<>>
     /\ Last(stack_type).k \in {"Forall", "ForallRegion"})
        => KindChecked(<<IF Last(stack_type).k = "Forall" THEN "Type"
                         ELSE "Region">>, O("Call"))
\* app on an empty compile-time stack
AppEmpty ==
    (Reads(O("App")) /\ compile_time_stack = <<>>)
        => RejectedBy("TypeErrorEmptyCTStack", O("App"))
\* app pops a slot that is neither a type nor a region
AppOfSize ==
    /\ Reads(O("App")) /\ compile_time_stack # <<>>
    /\ Last(compile_time_stack).k = "Size"

\* C18: kind and empty-stack errors of constructor opcodes.  handle,
\* tuple(n), func(n), ptr, some, all, unpack, malloc and the instantiation
\* of a quantifier by call fail with KindError, naming the expected kind and
\* the opcode, when a popped slot has another kind, and with
\* TypeErrorEmptyCTStack when the slot is missing.  pack does so once it has
\* popped a type from the run-time stack.  app fails with
\* TypeErrorEmptyCTStack on an empty compile-time stack and with
\* KindErrorBadApp, which names no kind, on a Size slot.
C18_KindErrors ==
    [][/\ ConstructorKinds
       /\ (Reads(O("Pack")) /\ stack_type # <<>>)
             => KindChecked(KindsPopped(O("Pack")), O("Pack"))
       /\ CallKinds
       /\ AppEmpty
       /\ AppOfSize => RejectedBy("KindErrorBadApp", O("App"))]_vars

\* C18 as stated: pack and app as the other constructor opcodes, with
\* KindError for a slot of another kind and TypeErrorEmptyCTStack for a
\* missing slot.
C18_Stated ==
    [][/\ ConstructorKinds
       /\ Reads(O("Pack")) => KindChecked(KindsPopped(O("Pack")), O("Pack"))
       /\ CallKinds
       /\ AppEmpty
       /\ AppOfSize => RejectedBy("KindError", O("App"))]_vars

\* C18: handle was refused on a Type slot
C18_Witness ==
    /\ pc = "done" /\ result.k = "err" /\ cur_op = O("Handle")
    /\ result.err.e = "KindError" /\ result.err.kind = "Region"
    /\ result.err.ctval = CTType(TI32) /\ result.err.op = O("Handle")

\* C19: ct_get range.  ct_get(i) on a compile-time stack of depth d pushes
\* a copy of the i-th slot from the top and leaves the other slots as they
\* are when i < d; when i >= d it fails with TypeErrorCTGetOutOfRange
\* carrying i and d.
C19_CTGetRange ==
    [][\A i \in Params :
          Reads(OI("CTGet", i))
              => IF i < Len(compile_time_stack)
                 THEN /\ Accepted
                      /\ compile_time_stack' =
                            Append(compile_time_stack, Slot(i + 1))
                 ELSE /\ RejectedWith("TypeErrorCTGetOutOfRange")
                      /\ result'.err.i = i
                      /\ result'.err.len = Len(compile_time_stack)]_vars

CurrentBody == input.unverified_stmts[n_stmts + 1].ops
\* a function of signature func(0) is being verified and its body is b
VerifiesBody(b) ==
    /\ pc = "definition_pass" /\ input # NoValue
    /\ my_type = TFunc(<<>>) /\ CurrentBody = b
ProjOps(ops) == SelectSeq(ops, LAMBDA o : o.op \in {"Proj", "ProjIP"})

C23_FreeBeforeHalt ==
    [][VerifiesBody(FreeBeforeHalt)
          => IF cur_op' = O("FreeRgn")
             THEN /\ Last(stack_type) = TI32
                  /\ RejectedWith("TypeErrorRegionHandleExpected")
                  /\ result'.err.op = O("FreeRgn") /\ result'.err.t = TI32
             ELSE Accepted]_vars

\* C23 as stated: free-region before halt fails with an empty-stack error.
C23_Stated ==
    [][(VerifiesBody(FreeBeforeHalt) /\ cur_op' = O("FreeRgn"))
          => RejectedWith("TypeErrorEmptyStack")]_vars

\* C23: go returned the error of free-region, the thirteenth opcode of the
\* body
C23_Witness ==
    /\ pc = "done" /\ input # NoValue /\ cur_op = O("FreeRgn")
    /\ input.unverified_stmts[1].ops = FreeBeforeHalt
    /\ result.k = "err" /\ result.err.e = "TypeErrorRegionHandleExpected"
    /\ result.err.t = TI32
    /\ result.err.pos = input.unverified_stmts[1].label + 12

\* C24: get stack effect.  get(i) is accepted exactly when the run-time
\* stack has more than i entries; it then pushes a copy of the entry i
\* places below the top and leaves every former entry as it was.  On an
\* empty stack it fails with TypeErrorEmptyStack, on a stack of depth d
\* with 0 < d <= i with TypeErrorGetOutOfRange(i, d).
C24_GetStackEffect ==
    [][\A i \in Params :
          Reads(OI("Get", i))
             => LET d == Len(stack_type)
                IN /\ Accepted <=> d > i
                   /\ Accepted =>
                         stack_type' = Append(stack_type, stack_type[d - i])
                   /\ d = 0 => /\ RejectedWith("TypeErrorEmptyStack")
                               /\ result'.err.op = OI("Get", i)
                   /\ (0 < d /\ d <= i)
                         => /\ RejectedWith("TypeErrorGetOutOfRange")
                            /\ result'.err.i = i /\ result'.err.len = d]_vars

\* C24: get(1) copied a handle from under an i32
C24_Witness ==
    /\ pc = "definition_pass" /\ cur_op = OI("Get", 1)
    /\ Len(stack_type) = 3
    /\ stack_type[1].k = "Handle" /\ stack_type[2] = TI32
    /\ stack_type[3] = stack_type[1]

\* what init(i) finds: the value on top, the container under it
InitValue == Last(stack_type)
InitRest == SubSeq(stack_type, 1, Len(stack_type) - 2)
\* the words before component i, and the words of all components
WordsBefore(cs, i) == SumSeq([j \in 1..i |-> size(cs[j].t)])
Words(cs) == SumSeq([j \in 1..Len(cs) |-> size(cs[j].t)])
\* the container with component i set to (true, v), nothing else changed
WithComponent(c, i, v) ==
    LET cs == [Components(c) EXCEPT ![i + 1] = [init |-> TRUE, t |-> v]]
    IN IF c.k = "Tuple" THEN TTuple(cs) ELSE TPtr(TTuple(cs), c.r)
\* init(i) succeeded as the claim describes
InitDone(i) ==
    LET c == InitTarget
        v == InitValue
        cs == Components(c)
    IN /\ Accepted
       /\ stack_type' = Append(InitRest, WithComponent(c, i, v))
       /\ verified_ops' =
             Append(verified_ops,
                    IF c.k = "Tuple"
                    THEN [op |-> "Init", offset |-> WordsBefore(cs, i),
                          size |-> size(v), total |-> Words(cs)]
                    ELSE [op |-> "InitIP", offset |-> WordsBefore(cs, i),
                          size |-> size(v)])
\* init(i) finds a value and a container holding a tuple
InitOnTuple(i) ==
    /\ Reads(OI("Init", i)) /\ Len(stack_type) >= 2 /\ IsTupleValue(InitTarget)

\* C25: init effect.  init(i) pops a value type v and then a container.  A
\* container that is neither a tuple nor a pointer to a tuple fails with
\* TypeErrorTupleExpected; a pointer to a tuple whose region is not in the
\* live set fails with RegionAccessError, before the component is looked
\* at.  Otherwise: i out of range fails with TypeErrorInitOutOfRange, a
\* component already flagged with TypeErrorDoubleInit, a component whose
\* type is not type_eq to v with TypeErrorInitTypeMismatch; and else the
\* container is pushed back with only component i changed to (true, v),
\* emitting Init(offset, size(v), total) for a direct tuple and
\* InitIP(offset, size(v)) for a pointer, offset being the summed sizes of
\* components 0..i-1.
C25_InitEffect ==
    [][\A i \in Params :
          (Reads(OI("Init", i)) /\ Len(stack_type) >= 2)
             => LET c == InitTarget
                    cs == Components(c)
                IN CASE ~IsTupleValue(c) ->
                           /\ RejectedWith("TypeErrorTupleExpected")
                           /\ result'.err.t = IF c.k = "Ptr" THEN c.t ELSE c
                     [] IsPtrToTuple(c) /\ ~Live(c.r) ->
                           RejectedWith("RegionAccessError") /\ result'.err.r = c.r
                     [] OTHER ->
                           IF i >= Len(cs)
                           THEN /\ RejectedWith("TypeErrorInitOutOfRange")
                                /\ result'.err.len = Len(cs)
                           ELSE IF cs[i + 1].init
                           THEN RejectedWith("TypeErrorDoubleInit")
                           ELSE IF ~type_eq(cs[i + 1].t, InitValue)
                           THEN /\ RejectedWith("TypeErrorInitTypeMismatch")
                                /\ result'.err.formal = cs[i + 1].t
                                /\ result'.err.actual = InitValue
                           ELSE InitDone(i)]_vars

\* C25 as stated: the outcome depends on the component alone, whatever
\* region a pointer is in.
C25_Stated ==
    [][\A i \in Params :
          /\ (InitOnTuple(i) /\ i >= Len(Components(InitTarget)))
                => RejectedWith("TypeErrorInitOutOfRange")
          /\ (InitOnTuple(i) /\ i < Len(Components(InitTarget)))
                => LET formal == Components(InitTarget)[i + 1]
                   IN /\ (~formal.init /\ type_eq(formal.t, InitValue))
                            => InitDone(i)
                      /\ (~formal.init /\ ~type_eq(formal.t, InitValue))
                            => RejectedWith("TypeErrorInitTypeMismatch")
          /\ (Reads(OI("Init", i)) /\ Len(stack_type) >= 2
                 /\ ~IsTupleValue(InitTarget))
                => RejectedWith("TypeErrorTupleExpected")]_vars

\* C25: init 1 has set the second component of a pair behind a pointer
C25_Witness ==
    /\ pc = "definition_pass" /\ cur_op = OI("Init", 1)
    /\ stack_type # <<>> /\ IsPtrToTuple(Last(stack_type))
    /\ Last(stack_type).t.ts =
          <<[init |-> FALSE, t |-> TI32], [init |-> TRUE, t |-> TI32]>>
    /\ Last(verified_ops) = [op |-> "InitIP", offset |-> 1, size |-> 1]

\* the type malloc finds on top of the compile-time stack
MallocType == Last(compile_time_stack).t
AllUninit(cs) == [j \in 1..Len(cs) |-> [init |-> FALSE, t |-> cs[j].t]]
\* the top of the run-time stack is a handle whose region has r's identifier
HandleOnTop(r) ==
    /\ stack_type # <<>> /\ Last(stack_type).k = "Handle"
    /\ Last(stack_type).r.id = r.id
ReadsMalloc ==
    /\ Reads(O("Malloc")) /\ compile_time_stack # <<>>
    /\ Last(compile_time_stack).k = "Type"

InLiveSet(r) == \E j \in 1..Len(rgn_vars) : rgn_vars[j] = r
WithoutRegion(r) == LET Other(r2) == r2 # r IN SelectSeq(rgn_vars, Other)

\* C27: free-region.  free-region is accepted only if the top of the
\* run-time stack is Handle(r) with r in the live region set and r unique;
\* it then pops the handle, removes r from the live set and emits FreeRgn.
\* A live but non-unique region fails with UniquenessError, a region not in
\* the live set with RegionAccessError, an entry that is not a handle with
\* TypeErrorRegionHandleExpected and an empty stack with
\* TypeErrorEmptyStack.
C27_FreeRgn ==
    [][Reads(O("FreeRgn"))
          => IF stack_type = <<>> THEN RejectedWith("TypeErrorEmptyStack")
             ELSE LET t == Last(stack_type)
                  IN IF t.k # "Handle"
                     THEN /\ RejectedWith("TypeErrorRegionHandleExpected")
                          /\ result'.err.t = t
                     ELSE CASE InLiveSet(t.r) /\ t.r.unique ->
                                 /\ Accepted
                                 /\ stack_type' = Front(stack_type)
                                 /\ rgn_vars' = WithoutRegion(t.r)
                                 /\ \A j \in 1..Len(rgn_vars') : rgn_vars'[j] # t.r
                                 /\ verified_ops' =
                                       Append(verified_ops, [op |-> "FreeRgn"])
                            [] InLiveSet(t.r) /\ ~t.r.unique ->
                                 /\ RejectedWith("UniquenessError")
                                 /\ result'.err.r = t.r
                            [] OTHER ->
                                 /\ RejectedWith("RegionAccessError")
                                 /\ result'.err.r = t.r]_vars

\* the slot r is refused as the argument of the region quantifier t
Escapes(t, r) ==
    /\ t.r.unique
    /\ \E j \in 1..Len(t.captured_rgns) : t.captured_rgns[j].id = r.id
\* one elimination of the outermost quantifier of t with the top slot of
\* cts: the error it fails with, or the instantiated body and the slots left
Eliminate(t, cts) ==
    CASE cts = <<>> -> [e |-> "TypeErrorEmptyCTStack"]
      [] t.k = "Forall" /\ Last(cts).k # "Type" -> [e |-> "KindError"]
      [] t.k = "Forall" /\ size(Last(cts).t) # t.s -> [e |-> "SizeError"]
      [] t.k = "Forall" ->
            [e |-> "None", cts |-> Front(cts),
             t |-> substitute_t(t.t, (t.id :> Last(cts).t), <<>>)]
      [] t.k = "ForallRegion" /\ Last(cts).k # "Region" -> [e |-> "KindError"]
      [] t.k = "ForallRegion" /\ Escapes(t, Last(cts).r) ->
            [e |-> "RegionAccessError"]
      [] OTHER ->
            [e |-> "None", cts |-> Front(cts),
             t |-> substitute_t(t.t, <<>>, (t.r.id :> Last(cts).r))]
IsQuantified(t) == t.k \in {"Forall", "ForallRegion"}
\* the eliminations of call, repeated until no quantifier is left
RECURSIVE EliminateAll(_, _)
EliminateAll(t, cts) ==
    IF ~IsQuantified(t) THEN [e |-> "None", cts |-> cts, t |-> t]
    ELSE LET o == Eliminate(t, cts)
         IN IF o.e # "None" THEN o ELSE EliminateAll(o.t, o.cts)
\* what call does with the run-time entry t on top
CallEliminates(t) ==
    LET o == EliminateAll(t, compile_time_stack)
    IN /\ o.e # "None" => /\ RejectedWith(o.e)
                          /\ result'.err.op = O("Call")
       /\ (o.e = "None" /\ o.t.k # "Func")
             => RejectedWith("TypeErrorFunctionExpected")
       /\ Accepted => /\ o.e = "None" /\ o.t.k = "Func"
                      /\ compile_time_stack' = o.cts
\* what app does on a successful elimination
AppEliminates(t) ==
    LET o == Eliminate(t, compile_time_stack)
    IN /\ o.e = "None" /\ Accepted
       /\ compile_time_stack' = o.cts
       /\ stack_type' = Append(Front(stack_type), o.t)
QuantifierOnTop(name) ==
    /\ Reads(O(name)) /\ stack_type # <<>> /\ IsQuantified(Last(stack_type))

\* C28: quantifier elimination at call and app, as the code does it.  Call
\* eliminates the quantifiers of the called type from the outside in, each
\* with the top compile-time slot: a slot of the wrong kind fails with
\* KindError, a type of the wrong size with SizeError, a captured unique
\* region with RegionAccessError; each elimination pops one slot and
\* substitutes it in the body, until a function type remains.  App
\* eliminates one quantifier, chosen by the kind of the top compile-time
\* slot: with a type slot a run-time top that is not a Forall fails with
\* TypeErrorForallExpected, with a region slot one that is not a
\* ForallRegion fails with TypeErrorForallRegionExpected, and a size slot
\* fails with KindErrorBadApp.
C28_Elimination ==
    [][/\ QuantifierOnTop("Call") => CallEliminates(Last(stack_type))
       /\ (QuantifierOnTop("App") /\ compile_time_stack # <<>>)
             => LET t == Last(stack_type)
                    slot == Last(compile_time_stack)
                    o == Eliminate(t, compile_time_stack)
                IN CASE slot.k = "Type" /\ t.k = "Forall" ->
                          IF o.e = "None" THEN AppEliminates(t)
                          ELSE RejectedWith("SizeError")
                     [] slot.k = "Region" /\ t.k = "ForallRegion" ->
                          IF o.e = "None" THEN AppEliminates(t)
                          ELSE RejectedWith("RegionAccessError")
                     [] slot.k = "Type" ->
                          RejectedWith("TypeErrorForallExpected")
                     [] slot.k = "Region" ->
                          RejectedWith("TypeErrorForallRegionExpected")
                     [] OTHER -> RejectedWith("KindErrorBadApp")]_vars

\* C28 as stated: at app, as at call, a slot of the wrong kind fails with
\* KindError
C28_Stated ==
    [][/\ QuantifierOnTop("Call") => CallEliminates(Last(stack_type))
       /\ (QuantifierOnTop("App") /\ compile_time_stack # <<>>)
             => LET t == Last(stack_type)
                    o == Eliminate(t, compile_time_stack)
                IN IF o.e = "None" THEN AppEliminates(t)
                   ELSE RejectedWith(o.e)]_vars

\* C28: app has instantiated a quantified signature with the top
\* compile-time slot
C28_Witness ==
    /\ pc = "definition_pass" /\ cur_op = O("App")
    /\ stack_type # <<>> /\ Last(stack_type).k = "Func"
    /\ Last(stack_type).ts # <<>>
    /\ Len(verified_ops) = 1 /\ verified_ops[1].op = "GlobalFunc"
    /\ types[verified_ops[1].label].k = "Forall"

\* the number of region quantifiers t starts with
RECURSIVE RegionParams(_)
RegionParams(t) == IF t.k = "ForallRegion" THEN 1 + RegionParams(t.t) ELSE 0
\* the top n compile-time slots are regions, two of them one unique region
SharedUnique(n) ==
    /\ n <= Len(compile_time_stack)
    /\ \A j \in 1..n : Slot(j).k = "Region"
    /\ \E i \in 1..n, j \in 1..n :
          /\ i < j /\ Slot(i).r.unique /\ Slot(i) = Slot(j)

\* C29: unique-region escape rule.  A call whose region arguments hold one
\* unique region twice is rejected with RegionAccessError, and so is an app
\* of a region-quantified type to a unique region an earlier app has
\* already instantiated it with; no accepted instantiation passes one
\* unique region for two region parameters.
C29_NoSharedUnique ==
    [][/\ (QuantifierOnTop("Call")
             /\ SharedUnique(RegionParams(Last(stack_type))))
          => RejectedWith("RegionAccessError")
       /\ (QuantifierOnTop("App") /\ compile_time_stack # <<>>
             /\ Last(stack_type).k = "ForallRegion"
             /\ Last(compile_time_stack).k = "Region"
             /\ Last(compile_time_stack).r.unique
             /\ \E j \in 1..Len(Last(stack_type).captured_rgns) :
                   Last(stack_type).captured_rgns[j] = Last(compile_time_stack).r)
          => RejectedWith("RegionAccessError")]_vars

\* C30: type_eq on function types.  type_eq(Func(a), Func(b)) is true only
\* if a and b have the same number of argument types and these are pairwise
\* type_eq; two function types of different arity are never equal.
C30_FuncArity ==
    (/\ out_value.f = "type_eq" /\ out_value.v
     /\ in_type1.k = "Func" /\ in_type2.k = "Func")
        => /\ Len(in_type1.ts) = Len(in_type2.ts)
           /\ \A j \in 1..Len(in_type1.ts) :
                 type_eq(in_type1.ts[j], in_type2.ts[j])

\* pack finds a run-time entry, a type on top of the compile-time stack and
\* a type below it
PackReads ==
    /\ Reads(O("Pack")) /\ stack_type # <<>>
    /\ Len(compile_time_stack) >= 2
    /\ Slot(1).k = "Type" /\ Slot(2).k = "Type"
\* the existential with its variable replaced by the hidden type h
Unpacked(ex, h) == substitute_t(ex.t, (ex.id :> h), <<>>)

\* C31: pack.  pack pops the top run-time type v, then a hidden type h and
\* an existential Exists(a, s, body) from the compile-time stack, and is
\* accepted only if v is type_eq to body with a replaced by h and the size
\* of v equals s; it then pushes that Exists type onto the run-time stack.
\* A type mismatch fails with TypeError, a size mismatch with SizeError, and
\* a compile-time type that is not an existential with
\* TypeErrorExistentialExpected.
C31_Pack ==
    [][PackReads
          => LET v == Last(stack_type)
                 h == Slot(1).t
                 ex == Slot(2).t
             IN IF ex.k # "Exists"
                THEN /\ RejectedWith("TypeErrorExistentialExpected")
                     /\ result'.err.t = ex
                ELSE /\ Accepted <=> (type_eq(v, Unpacked(ex, h)) /\ size(v) = ex.s)
                     /\ Accepted
                          => /\ stack_type' = Append(Front(stack_type), ex)
                             /\ compile_time_stack' =
                                   SubSeq(compile_time_stack, 1,
                                          Len(compile_time_stack) - 2)
                     /\ ~type_eq(v, Unpacked(ex, h)) => RejectedWith("TypeError")
                     /\ (type_eq(v, Unpacked(ex, h)) /\ size(v) # ex.s)
                          => RejectedWith("SizeError")]_vars

\* C31: pack has found a type that is not an existential below the hidden
\* type and has returned the error
C31_Witness ==
    /\ pc = "done" /\ cur_op = O("Pack")
    /\ result.k = "err" /\ result.err.e = "TypeErrorExistentialExpected"
\* the type t holds an existential
RECURSIVE HasExists(_)
HasExists(t) ==
    CASE t.k = "Exists" -> TRUE
      [] t.k \in {"Forall", "ForallRegion", "Ptr"} -> HasExists(t.t)
      [] t.k = "Tuple" -> \E j \in 1..Len(t.ts) : HasExists(t.ts[j].t)
      [] t.k = "Func" -> \E j \in 1..Len(t.ts) : HasExists(t.ts[j])
      [] OTHER -> FALSE

\* C31: in definition_pass no compile-time slot holds an existential, so
\* pack never finds one below the hidden type
C31_NoExistentialSlot ==
    pc = "definition_pass"
        => \A j \in 1..Len(compile_time_stack) :
              compile_time_stack[j].k = "Type"
                  => ~HasExists(compile_time_stack[j].t)

\* C32: totality.  Whatever the input, go returns the elaborated program or
\* an Error value; it never aborts by panic.
C32_Totality == pc = "done" => result.k \in {"ok", "err"}

\* C33: scope of the unique marker.  A unique opcode makes only the next
\* region unique: the region a region opcode introduces right after another
\* region opcode is non-unique, and free-region on the handle of the second
\* region of the signature unique, region, region, ... fails with
\* UniquenessError.
C33_UniqueScope ==
    [][/\ (Reads(O("Rgn")) /\ cur_op = O("Rgn") /\ Accepted)
            => ~Last(compile_time_stack').r.unique
       /\ (/\ Reads(O("FreeRgn")) /\ input # NoValue
           /\ input.types_instrs = <<Dec(0, Sig.SecondHandle)>>
           /\ pos = label)
            => RejectedWith("UniquenessError")]_vars

\* the opcodes that only build compile-time constructors
Constructors ==
    {"Unique", "Handle", "I32", "Tuple", "Some", "All", "Rgn", "Func", "CTGet",
     "Size", "Ptr", "Unpack"}
\* definition_pass has read a body opcode and gone on
AcceptedOp == pc = "definition_pass" /\ Accepted

\* C34: frame of constructor opcodes.  In definition_pass an accepted
\* unique, handle, i32, tuple(n), some, all, region, func(n), ct_get(i),
\* size, ptr or unpack leaves the run-time stack, the live region set and
\* the emitted opcodes as they were, and an accepted opcode that emits
\* appends exactly one elaborated opcode.
C34_ConstructorFrame ==
    [][AcceptedOp
          => /\ cur_op'.op \in Constructors
                  => /\ stack_type' = stack_type
                     /\ rgn_vars' = rgn_vars
                     /\ verified_ops' = verified_ops
             /\ verified_ops' # verified_ops
                  => /\ Len(verified_ops') = Len(verified_ops) + 1
                     /\ Front(verified_ops') = verified_ops]_vars

\* C34: a constructor opcode has been accepted after an opcode that
\* emitted, with a run-time entry and a live region in place
C34_Witness ==
    /\ pc = "definition_pass" /\ cur_op.op \in Constructors
    /\ stack_type # <<>> /\ rgn_vars # <<>> /\ verified_ops # <<>>
====
